---------------------------- MODULE Spec2Model ----------------------------
(***************************************************************************)
(* HazardLens backend: the perception-to-alert pipeline.                   *)
(*                                                                         *)
(*   CentroidTracker  (tracker.py)         identities for detections       *)
(*   ZoneEngine       (zone_engine.py)     zone occupancy and proximity    *)
(*   EventDetector    (event_detector.py)  stateful alert rules            *)
(*   AnalyticsEngine  (analytics.py)       risk and compliance             *)
(*   Pipeline         (pipeline.py)        one frame through all of them   *)
(*   sessions         (main.py)            job streams and live sockets    *)
(*                                                                         *)
(* Coordinates are pixels.  Every box of the model has even coordinates,   *)
(* so the midpoint (a + b) / 2.0 of the code is the integer (a + b) \div 2 *)
(* and every distance comparison of the code (a float sqrt against a       *)
(* threshold) is decided exactly on the squared integers.  Wall-clock time *)
(* is counted in whole seconds.  The confidence of a detection is copied   *)
(* by the tracker and read by no rule; it is left out of the records.      *)
(***************************************************************************)
EXTENDS Integers, Sequences, FiniteSets, TLC

VARIABLES
    \* CentroidTracker
    next_id,        \* _next_id
    objects,        \* _objects: OrderedDict, as the sequence of its values
    disappeared,    \* _disappeared: track id -> consecutive missed updates
    \* observation of the latest CentroidTracker call
    call,           \* what was called, with which detections, on which state
    issued,         \* ids handed out by _register since the last reset, in order
    missed,         \* id -> consecutive updates in which it got no detection
    gone,           \* ids removed from _objects since the last reset
    \* ZoneEngine
    zones,          \* _zones: zone id -> ZoneConfig (_polygons follows it)
    prev_occupancy, \* _prev_occupancy: track id -> zone ids of the last pass
    \* EventDetector
    prev_ppe,           \* _prev_ppe
    loiter_state,       \* _loiter_state: id -> <<first stationary, last alert>>
    near_miss_cooldown, \* _near_miss_cooldown: <<person, vehicle>> -> last alert
    fallen_counts,      \* _fallen_counts
    fallen_alerted,     \* _fallen_alerted
    now,            \* time.time()
    \* observation of the latest detect_events call
    out,            \* its arguments, the events it returned, hist before it
    hist,           \* what the calls so far have shown of every track and pair
    \* AnalyticsEngine
    analytics_events,    \* _events
    risk_history,        \* _risk_history
    compliance_history,  \* _compliance_history
    alert_buckets,       \* _alert_buckets: minute -> events ingested in it
    start_time,          \* _start_time
    \* Pipeline and settings
    frame_count,    \* _frame_count
    last_result,    \* _last_result: <<the FrameResult>>, or <<>> for None
    SKIP_FRAMES,    \* settings.SKIP_FRAMES
    \* observation of the latest process_frame call
    ran,            \* the component calls it made, in order, and what it returned
    \* main.py, Pipeline.process_video: the sessions that feed the pipeline
    sessions        \* the sessions started so far, in order: frame loop, capture,
                    \* job row, consumer

trackerVars == <<next_id, objects, disappeared>>
trackerObs  == <<call, issued, missed, gone>>
zoneVars == <<zones, prev_occupancy>>
edVars == <<prev_ppe, loiter_state, near_miss_cooldown, fallen_counts, fallen_alerted>>
edObs == <<now, out, hist>>
analyticsVars == <<analytics_events, risk_history, compliance_history,
                   alert_buckets, start_time>>
pipelineVars == <<frame_count, last_result, SKIP_FRAMES>>
pipelineObs == <<ran>>
sessionVars == <<sessions>>
restVars == <<analyticsVars, pipelineVars, pipelineObs, sessionVars>>
vars == <<next_id, objects, disappeared, call, issued, missed, gone,
          zones, prev_occupancy, prev_ppe, loiter_state, near_miss_cooldown,
          fallen_counts, fallen_alerted, now, out, hist,
          analytics_events, risk_history, compliance_history, alert_buckets,
          start_time, frame_count, last_result, SKIP_FRAMES, ran, sessions>>

---------------------------------------------------------------------------
(* config.py, tracker.py: the settings the tracker reads                   *)

MAX_TRACK_DISTANCE == 80
TRAJECTORY_LENGTH == 60
max_disappeared == 15

(* Bounds of the model.                                                    *)
MaxDets == 2     \* detections in one frame
MaxFrames == 2   \* updates of a short session (SpecTracker)
MaxIds == 3      \* ids a long session issues (SpecEvict)
MaxTraj == 2     \* trajectory length a track reaches in a long session

---------------------------------------------------------------------------
(* models.py                                                               *)

PERSON == "person"
CAR == "car"
HARDHAT_ON == "hardhat_on"
HARDHAT_OFF == "hardhat_off"
UNKNOWN == "unknown"

Detection(cls, bbox, ppe) ==
    [class_name |-> cls, bbox |-> bbox, ppe_status |-> ppe]

TrackedObject(tid, cls, bbox, centroid, ppe, velocity, trajectory, fallen, zs) ==
    [track_id |-> tid, class_name |-> cls, bbox |-> bbox, centroid |-> centroid,
     ppe_status |-> ppe, velocity |-> velocity, trajectory |-> trajectory,
     is_fallen |-> fallen, in_zones |-> zs]

---------------------------------------------------------------------------
(* Frames offered to the tracker: upright 20x40 boxes whose centroids lie  *)
(* on the line y = 50 at x = 20, 60, 120 and 190.  60 is within the link   *)
(* distance of 20 and of 120, 190 is within it of 120 only.                *)

UprightBox(x) == <<x - 10, 30, x + 10, 70>>
FallenBox(x) == <<x - 30, 40, x + 30, 60>>

TrackerXs == {20, 60, 120, 190}
TrackerDets == {Detection(PERSON, UprightBox(x), HARDHAT_ON) : x \in TrackerXs}

\* a long session sees two places that never link to each other
EvictXs == {20, 190}
EvictDets == {Detection(PERSON, UprightBox(x), HARDHAT_ON) : x \in EvictXs}

RECURSIVE SeqsUpTo(_, _)
SeqsUpTo(S, n) ==
    IF n = 0 THEN {<<>>}
    ELSE LET shorter == SeqsUpTo(S, n - 1)
         IN  shorter \cup {Append(s, x) : s \in {t \in shorter : Len(t) = n - 1}, x \in S}

\* the frames of at most n detections of S, no detection twice in a frame
Frames(S, n) ==
    {ds \in SeqsUpTo(S, n) : \A i, j \in 1..Len(ds) : i # j => ds[i] # ds[j]}

---------------------------------------------------------------------------
(* tracker.py                                                              *)

Centroid(bbox) == <<(bbox[1] + bbox[3]) \div 2, (bbox[2] + bbox[4]) \div 2>>

\* cdist: Euclidean distance, kept squared
DistSq(p, q) == (p[1] - q[1]) * (p[1] - q[1]) + (p[2] - q[2]) * (p[2] - q[2])

\* the squared distance held against the plain threshold
TooFarUnsquared(dsq) == dsq > MAX_TRACK_DISTANCE

\* the distance check left out
TooFarNever(dsq) == FALSE

\* D[row, col] > settings.MAX_TRACK_DISTANCE
TooFar(dsq) == dsq > MAX_TRACK_DISTANCE * MAX_TRACK_DISTANCE

\* det.class_name == ObjectClass.PERSON and w > h * 1.3
IsFallen(det) ==
    /\ det.class_name = PERSON
    /\ 10 * (det.bbox[3] - det.bbox[1]) > 13 * (det.bbox[4] - det.bbox[2])

Ids(objs) == {objs[i].track_id : i \in 1..Len(objs)}

IndexOf(objs, tid) == CHOOSE i \in 1..Len(objs) : objs[i].track_id = tid

\* OrderedDict.pop(tid): the other values keep their order
Pop(objs, tid) == SelectSeq(objs, LAMBDA o : o.track_id # tid)

Restrict(f, S) == [x \in (DOMAIN f) \cap S |-> f[x]]

\* The tracker's fields, and what the running update call has done so far:
\* the ids _register handed out, the ids _update_object was called for and
\* the ids popped.
Tracker(objs, dis, nid, reg, upd, rem) ==
    [objects |-> objs, disappeared |-> dis, next_id |-> nid,
     registered |-> reg, updated |-> upd, removed |-> rem]

\* the id taken from the number of live tracks
NewIdByCount(t) == Len(t.objects)

\* _register: tid = self._next_id
NewId(t) == t.next_id

\* _register
Register(t, det) ==
    LET tid == NewId(t)
        c == Centroid(det.bbox)
    IN  Tracker(
            Append(t.objects,
                   TrackedObject(tid, det.class_name, det.bbox, c, det.ppe_status,
                                 <<0, 0>>, <<c>>, IsFallen(det), {})),
            (tid :> 0) @@ t.disappeared,
            t.next_id + 1,
            Append(t.registered, tid), t.updated, t.removed)

\* the list cut at its other end: the oldest centroids kept
TruncateNewest(traj) ==
    IF Len(traj) > TRAJECTORY_LENGTH THEN SubSeq(traj, 1, TRAJECTORY_LENGTH) ELSE traj

\* traj.append(centroid); traj[-TRAJECTORY_LENGTH:] when longer
Truncate(traj) ==
    IF Len(traj) > TRAJECTORY_LENGTH
    THEN SubSeq(traj, Len(traj) - TRAJECTORY_LENGTH + 1, Len(traj))
    ELSE traj

\* _update_object with in_zones left at the default of TrackedObject
UpdateObjectOutOfZones(t, tid, det) ==
    LET i == IndexOf(t.objects, tid)
        obj == t.objects[i]
        c == Centroid(det.bbox)
    IN  Tracker(
            [t.objects EXCEPT ![i] =
                TrackedObject(tid, det.class_name, det.bbox, c, det.ppe_status,
                              <<c[1] - obj.centroid[1], c[2] - obj.centroid[2]>>,
                              Truncate(Append(obj.trajectory, c)),
                              IsFallen(det), {})],
            [t.disappeared EXCEPT ![tid] = 0],
            t.next_id,
            t.registered, t.updated \cup {tid}, t.removed)

\* _update_object
UpdateObject(t, tid, det) ==
    LET i == IndexOf(t.objects, tid)
        obj == t.objects[i]
        c == Centroid(det.bbox)
    IN  Tracker(
            [t.objects EXCEPT ![i] =
                TrackedObject(tid, det.class_name, det.bbox, c, det.ppe_status,
                              <<c[1] - obj.centroid[1], c[2] - obj.centroid[2]>>,
                              Truncate(Append(obj.trajectory, c)),
                              IsFallen(det), obj.in_zones)],
            [t.disappeared EXCEPT ![tid] = 0],
            t.next_id,
            t.registered, t.updated \cup {tid}, t.removed)

\* the eviction one update early
ExpiredEarly(n) == n >= max_disappeared

\* self._disappeared[tid] > self._max_disappeared
Expired(n) == n > max_disappeared

\* self._disappeared[tid] += 1, and the eviction past _max_disappeared
Disappear(t, tid) ==
    LET n == t.disappeared[tid] + 1
    IN  IF Expired(n)
        THEN Tracker(Pop(t.objects, tid),
                     Restrict(t.disappeared, (DOMAIN t.disappeared) \ {tid}),
                     t.next_id,
                     t.registered, t.updated, t.removed \cup {tid})
        ELSE Tracker(t.objects, [t.disappeared EXCEPT ![tid] = n], t.next_id,
                     t.registered, t.updated, t.removed)

\* D = cdist(obj_centroids, input_centroids)
DistMatrix(objs, ds) ==
    [r \in 1..Len(objs) |->
        [c \in 1..Len(ds) |-> DistSq(objs[r].centroid, Centroid(ds[c].bbox))]]

Min(S) == CHOOSE x \in S : \A y \in S : x <= y

\* D.min(axis=1)
RowMin(D, r) == Min({D[r][c] : c \in DOMAIN D[r]})

\* D.argmin(axis=1): the first column holding the row's minimum
ArgMin(D, r) == Min({c \in DOMAIN D[r] : D[r][c] = RowMin(D, r)})

\* the rows in descending order of their minimum: the farthest track first
RowOrdersDescending(D) ==
    LET n == Len(D)
        perms == {p \in [1..n -> 1..n] : \A i, j \in 1..n : i # j => p[i] # p[j]}
    IN  {p \in perms : \A i \in 1..(n - 1) : RowMin(D, p[i]) >= RowMin(D, p[i + 1])}

\* D.min(axis=1).argsort(): the rows in ascending order of their minimum.
\* numpy's default sort is not stable, so rows with equal minima may come
\* in either order.
RowOrders(D) ==
    LET n == Len(D)
        perms == {p \in [1..n -> 1..n] : \A i, j \in 1..n : i # j => p[i] # p[j]}
    IN  {p \in perms : \A i \in 1..(n - 1) : RowMin(D, p[i]) <= RowMin(D, p[i + 1])}

\* the loop without its used_cols test: a detection may go to several tracks
RECURSIVE GreedyMatchShared(_, _, _, _)
GreedyMatchShared(D, rows, k, match) ==
    IF k > Len(rows) THEN match
    ELSE LET row == rows[k]
             col == ArgMin(D, row)
         IN  IF TooFar(D[row][col])
             THEN GreedyMatchShared(D, rows, k + 1, match)
             ELSE GreedyMatchShared(D, rows, k + 1, [match EXCEPT ![row] = col])

\* the loop over zip(rows, cols): match[row] is the column the row took, 0 for none
RECURSIVE GreedyMatch(_, _, _, _)
GreedyMatch(D, rows, k, match) ==
    IF k > Len(rows) THEN match
    ELSE LET row == rows[k]
             col == ArgMin(D, row)
             used_cols == {match[r] : r \in DOMAIN match} \ {0}
         IN  IF col \in used_cols \/ TooFar(D[row][col])
             THEN GreedyMatch(D, rows, k + 1, match)
             ELSE GreedyMatch(D, rows, k + 1, [match EXCEPT ![row] = col])

Matching(objs, ds, rows) ==
    GreedyMatch(DistMatrix(objs, ds), rows, 1, [r \in 1..Len(objs) |-> 0])

RECURSIVE ApplyMatches(_, _, _, _, _)
ApplyMatches(t, obj_ids, ds, match, r) ==
    IF r > Len(obj_ids) THEN t
    ELSE ApplyMatches(
            IF match[r] # 0 THEN UpdateObject(t, obj_ids[r], ds[match[r]]) ELSE t,
            obj_ids, ds, match, r + 1)

\* for row in unused_rows
RECURSIVE DisappearUnused(_, _, _, _)
DisappearUnused(t, obj_ids, match, r) ==
    IF r > Len(obj_ids) THEN t
    ELSE DisappearUnused(
            IF match[r] = 0 THEN Disappear(t, obj_ids[r]) ELSE t,
            obj_ids, match, r + 1)

\* for col in unused_cols (a set of small ints: ascending), and the
\* registration of every detection when there is no track
RECURSIVE RegisterUnused(_, _, _, _)
RegisterUnused(t, ds, used_cols, c) ==
    IF c > Len(ds) THEN t
    ELSE RegisterUnused(
            IF c \in used_cols THEN t ELSE Register(t, ds[c]),
            ds, used_cols, c + 1)

\* update with no detection
UpdateEmpty(t) ==
    LET ids == [i \in 1..Len(t.objects) |-> t.objects[i].track_id]
    IN  DisappearUnused(t, ids, [i \in 1..Len(ids) |-> 0], 1)

\* update
Update(t, ds, rows) ==
    IF Len(ds) = 0 THEN UpdateEmpty(t)
    ELSE IF Len(t.objects) = 0 THEN RegisterUnused(t, ds, {}, 1)
    ELSE LET obj_ids == [i \in 1..Len(t.objects) |-> t.objects[i].track_id]
             match == Matching(t.objects, ds, rows)
             used_cols == {match[r] : r \in DOMAIN match} \ {0}
             matched == ApplyMatches(t, obj_ids, ds, match, 1)
             aged == DisappearUnused(matched, obj_ids, match, 1)
         IN  RegisterUnused(aged, ds, used_cols, 1)

\* reset
ResetTracker == Tracker(<<>>, <<>>, 0, <<>>, {}, {})

---------------------------------------------------------------------------
(* config.py, event_detector.py: the settings the zone engine and the      *)
(* rules read                                                              *)

PROXIMITY_THRESHOLD == 100
LOITER_SECONDS == 8
LOITER_COOLDOWN == 30
NEAR_MISS_COOLDOWN == 5
FALLEN_FRAME_COUNT == 5
STATIONARY_SPEED == 3

TRUCK == "truck"
BICYCLE == "bicycle"
INFO == "info"
WARNING == "warning"
CRITICAL == "critical"
NONE == "None"

ZoneConfig(id, name, zone_type, polygon) ==
    [id |-> id, name |-> name, zone_type |-> zone_type, polygon |-> polygon]

\* the variable parts of the description stand for its text
Event(frame, type, sev, description, tid, zid) ==
    [frame_number |-> frame, event_type |-> type, severity |-> sev,
     description |-> description, track_id |-> tid, zone_id |-> zid]

\* dict.get(k, d), d[k] = v, d.pop(k, None)
Get(f, k, d) == IF k \in DOMAIN f THEN f[k] ELSE d
Put(f, k, v) == [x \in (DOMAIN f) \cup {k} |-> IF x = k THEN v ELSE f[x]]
Del(f, k) == Restrict(f, (DOMAIN f) \ {k})

\* The elements of a set one after the other.  Python fixes no iteration
\* order for a set of str; the model takes one order, and nothing below
\* reads the position of an event among those of the same track.
RECURSIVE SetToSeq(_)
SetToSeq(S) ==
    IF S = {} THEN <<>>
    ELSE LET x == CHOOSE y \in S : TRUE
         IN  <<x>> \o SetToSeq(S \ {x})

---------------------------------------------------------------------------
(* zone_engine.py                                                          *)

Cross(a, b, p) == (b[1] - a[1]) * (p[2] - a[2]) - (b[2] - a[2]) * (p[1] - a[1])

\* poly.contains(pt): the point lies in the interior.  For a convex polygon
\* that is the point lying strictly on the same side of every edge.
Contains(polygon, pt) ==
    LET n == Len(polygon)
        side(i) == Cross(polygon[i], polygon[(i % n) + 1], pt)
    IN  \/ \A i \in 1..n : side(i) > 0
        \/ \A i \in 1..n : side(i) < 0

\* the inner loop of check_zones
InZones(zs, obj) == {zid \in DOMAIN zs : Contains(zs[zid].polygon, obj.centroid)}

\* every zone the track is in, whatever the last pass recorded
EnteredAgain(in_zones, prev) == in_zones

\* in_zones - prev
Entered(in_zones, prev) == in_zones \ prev

\* prev - in_zones
Exited(in_zones, prev) == prev \ in_zones

\* check_zones.  A dict of the code is the sequence of its items, in
\* insertion order; the returned objects are the tracker's own, with
\* in_zones written.
CheckZones(zs, prev_occ, tracked) ==
    LET idx == 1..Len(tracked)
        inz == [i \in idx |-> InZones(zs, tracked[i])]
        prev == [i \in idx |-> Get(prev_occ, tracked[i].track_id, {})]
        ent == [i \in idx |-> <<tracked[i].track_id, Entered(inz[i], prev[i])>>]
        exi == [i \in idx |-> <<tracked[i].track_id, Exited(inz[i], prev[i])>>]
    IN  [current |-> [tid \in Ids(tracked) |-> inz[IndexOf(tracked, tid)]],
         entries |-> SelectSeq(ent, LAMBDA it : it[2] # {}),
         exits |-> SelectSeq(exi, LAMBDA it : it[2] # {}),
         objects |-> [i \in idx |-> [tracked[i] EXCEPT !.in_zones = inz[i]]]]

\* the threshold itself counted as close
CloseOrAt(dsq) == dsq <= PROXIMITY_THRESHOLD * PROXIMITY_THRESHOLD

\* dist < settings.PROXIMITY_THRESHOLD
Close(dsq) == dsq < PROXIMITY_THRESHOLD * PROXIMITY_THRESHOLD

VehicleClasses == {CAR, TRUCK, BICYCLE}

\* detect_proximity: <<person id, vehicle id, squared distance>>
DetectProximity(tracked) ==
    LET persons == SelectSeq(tracked, LAMBDA o : o.class_name = PERSON)
        vehicles == SelectSeq(tracked, LAMBDA o : o.class_name \in VehicleClasses)
        nv == Len(vehicles)
        pairs == [k \in 1..(Len(persons) * nv) |->
                    LET p == persons[((k - 1) \div nv) + 1]
                        v == vehicles[((k - 1) % nv) + 1]
                    IN  <<p.track_id, v.track_id, DistSq(p.centroid, v.centroid)>>]
    IN  SelectSeq(pairs, LAMBDA pr : Close(pr[3]))

\* the occupancy of the session before is kept
ResetOccupancyKept == prev_occupancy

\* self._prev_occupancy.clear()
ResetOccupancy == <<>>

---------------------------------------------------------------------------
(* event_detector.py                                                       *)

\* The five stores, and the events the running call has appended so far.
Detector(ppe, loiter, near, counts, alerted, evs) ==
    [prev_ppe |-> ppe, loiter_state |-> loiter, near_miss_cooldown |-> near,
     fallen_counts |-> counts, fallen_alerted |-> alerted, events |-> evs]

Emit(e, ev) == [e EXCEPT !.events = Append(@, ev)]

\* the last status that was not unknown
StoredKnownPpe(prev, cur) == IF cur = UNKNOWN THEN prev ELSE cur

\* self._prev_ppe[obj.track_id] = obj.ppe_status
StoredPpe(prev, cur) == cur

\* PPE transitions, one object
PpeStep(e, obj, frame) ==
    LET tid == obj.track_id
        prev == Get(e.prev_ppe, tid, UNKNOWN)
        cur == obj.ppe_status
        e1 == IF prev = HARDHAT_ON /\ cur = HARDHAT_OFF
              THEN Emit(e, Event(frame, "ppe_violation", WARNING, <<tid>>, tid, NONE))
              ELSE IF prev = HARDHAT_OFF /\ cur = HARDHAT_ON
              THEN Emit(e, Event(frame, "ppe_restored", INFO, <<tid>>, tid, NONE))
              ELSE e
    IN  IF obj.class_name # PERSON THEN e
        ELSE [e1 EXCEPT !.prev_ppe = Put(@, tid, StoredPpe(prev, cur))]

\* a zone that is not in the lookup named as unknown
ZoneNameOfKnown(zs, zid) == IF zid \in DOMAIN zs THEN zs[zid].name ELSE "unknown"

\* zone_name, zone_type of a zone id, known or not
ZoneName(zs, zid) == IF zid \in DOMAIN zs THEN zs[zid].name ELSE zid
ZoneType(zs, zid) == IF zid \in DOMAIN zs THEN zs[zid].zone_type ELSE "restricted"

\* the entries into restricted zones made critical too
EntrySeverityOfKeptOut(zone_type) ==
    IF zone_type \in {"danger", "restricted"} THEN CRITICAL ELSE WARNING

EntrySeverity(zone_type) == IF zone_type = "danger" THEN CRITICAL ELSE WARNING

EntryEvent(zs, tid, zid, frame) ==
    Event(frame, "zone_entry", EntrySeverity(ZoneType(zs, zid)),
          <<tid, ZoneType(zs, zid), ZoneName(zs, zid)>>, tid, zid)

ExitEvent(zs, tid, zid, frame) ==
    Event(frame, "zone_exit", INFO, <<tid, ZoneName(zs, zid)>>, tid, zid)

\* for tid, zone_ids in zone_entries.items(): for zid in zone_ids: ...
RECURSIVE EntryEvents(_, _, _, _)
EntryEvents(items, zs, frame, i) ==
    IF i > Len(items) THEN <<>>
    ELSE LET tid == items[i][1]
             zids == SetToSeq(items[i][2])
         IN  [k \in 1..Len(zids) |-> EntryEvent(zs, tid, zids[k], frame)]
                \o EntryEvents(items, zs, frame, i + 1)

\* for tid, zone_ids in zone_exits.items(): for zid in zone_ids: ...
RECURSIVE ExitEvents(_, _, _, _)
ExitEvents(items, zs, frame, i) ==
    IF i > Len(items) THEN <<>>
    ELSE LET tid == items[i][1]
             zids == SetToSeq(items[i][2])
         IN  [k \in 1..Len(zids) |-> ExitEvent(zs, tid, zids[k], frame)]
                \o ExitEvents(items, zs, frame, i + 1)

\* speed < 3.0
Stationary(velocity) ==
    velocity[1] * velocity[1] + velocity[2] * velocity[2]
        < STATIONARY_SPEED * STATIONARY_SPEED

\* the cooldown alone
LoiterDueAtOnce(first_time, last_alert, t) == t - last_alert >= LOITER_COOLDOWN

\* elapsed >= LOITER_SECONDS and now - last_alert >= LOITER_COOLDOWN
LoiterDue(first_time, last_alert, t) ==
    t - first_time >= LOITER_SECONDS /\ t - last_alert >= LOITER_COOLDOWN

\* Loitering detection, one object
LoiterStep(e, obj, frame, t) ==
    LET tid == obj.track_id
        known == tid \in DOMAIN e.loiter_state
        state == e.loiter_state[tid]
    IN  IF obj.class_name # PERSON THEN e
        ELSE IF obj.in_zones = {} THEN [e EXCEPT !.loiter_state = Del(@, tid)]
        ELSE IF ~Stationary(obj.velocity) THEN [e EXCEPT !.loiter_state = Del(@, tid)]
        ELSE IF ~known THEN [e EXCEPT !.loiter_state = Put(@, tid, <<t, 0>>)]
        ELSE IF LoiterDue(state[1], state[2], t)
        THEN [Emit(e, Event(frame, "loitering", WARNING, <<tid, t - state[1]>>, tid, NONE))
                EXCEPT !.loiter_state = Put(@, tid, <<state[1], t>>)]
        ELSE e

\* the cooldown has to be exceeded
NearMissDueStrict(last, t) == t - last > NEAR_MISS_COOLDOWN

\* now - last >= settings.NEAR_MISS_COOLDOWN
NearMissDue(last, t) == t - last >= NEAR_MISS_COOLDOWN

\* Near-miss detection, one pair
NearMissStep(e, pair, frame, t) ==
    LET key == <<pair[1], pair[2]>>
        last == Get(e.near_miss_cooldown, key, 0)
    IN  IF NearMissDue(last, t)
        THEN [Emit(e, Event(frame, "near_miss", CRITICAL, pair, pair[1], NONE))
                EXCEPT !.near_miss_cooldown = Put(@, key, t)]
        ELSE e

\* the latch not read
FallenDueUnlatched(count, alerted) == count >= FALLEN_FRAME_COUNT

\* count >= FALLEN_FRAME_COUNT and not alerted
FallenDue(count, alerted) == count >= FALLEN_FRAME_COUNT /\ ~alerted

\* Fallen worker detection, one object
FallenStep(e, obj, frame) ==
    LET tid == obj.track_id
        e1 == IF obj.is_fallen
              THEN [e EXCEPT !.fallen_counts = Put(@, tid, Get(e.fallen_counts, tid, 0) + 1)]
              ELSE [e EXCEPT !.fallen_counts = Put(@, tid, 0),
                             !.fallen_alerted = Put(@, tid, FALSE)]
    IN  IF obj.class_name # PERSON THEN e
        ELSE IF FallenDue(Get(e1.fallen_counts, tid, 0), Get(e1.fallen_alerted, tid, FALSE))
        THEN [Emit(e1, Event(frame, "fallen_worker", CRITICAL, <<tid>>, tid, NONE))
                EXCEPT !.fallen_alerted = Put(@, tid, TRUE)]
        ELSE e1

\* the four loops over tracked_objects and proximity_pairs
RECURSIVE PpeRule(_, _, _, _)
PpeRule(e, tracked, frame, i) ==
    IF i > Len(tracked) THEN e
    ELSE PpeRule(PpeStep(e, tracked[i], frame), tracked, frame, i + 1)

RECURSIVE LoiterRule(_, _, _, _, _)
LoiterRule(e, tracked, frame, t, i) ==
    IF i > Len(tracked) THEN e
    ELSE LoiterRule(LoiterStep(e, tracked[i], frame, t), tracked, frame, t, i + 1)

RECURSIVE NearMissRule(_, _, _, _, _)
NearMissRule(e, pairs, frame, t, i) ==
    IF i > Len(pairs) THEN e
    ELSE NearMissRule(NearMissStep(e, pairs[i], frame, t), pairs, frame, t, i + 1)

RECURSIVE FallenRule(_, _, _, _)
FallenRule(e, tracked, frame, i) ==
    IF i > Len(tracked) THEN e
    ELSE FallenRule(FallenStep(e, tracked[i], frame), tracked, frame, i + 1)

\* detect_events at time t
DetectEvents(e, tracked_objects, zone_entries, zone_exits, proximity_pairs, zs, frame, t) ==
    LET e0 == [e EXCEPT !.events = <<>>]
        e1 == PpeRule(e0, tracked_objects, frame, 1)
        e2 == [e1 EXCEPT !.events = @ \o EntryEvents(zone_entries, zs, frame, 1)
                                      \o ExitEvents(zone_exits, zs, frame, 1)]
        e3 == LoiterRule(e2, tracked_objects, frame, t, 1)
        e4 == NearMissRule(e3, proximity_pairs, frame, t, 1)
    IN  FallenRule(e4, tracked_objects, frame, 1)

\* EventDetector.reset
ResetDetector == Detector(<<>>, <<>>, <<>>, <<>>, <<>>, <<>>)

---------------------------------------------------------------------------
(* analytics.py.  A float of the code is the fraction <<numerator,         *)
(* denominator>> it stands for, the denominator positive: compliance is a  *)
(* count over a count, every weight of the risk score is a multiple of     *)
(* 0.5.  The two readings of the clock in one ingest_frame call fall in    *)
(* the same second.                                                        *)

\* the points of a series get_analytics shows
SERIES_SHOWN == 200

\* a < b, a <= b, a = b on fractions
Less(a, b) == a[1] * b[2] < b[1] * a[2]
AtMost(a, b) == a[1] * b[2] <= b[1] * a[2]
Same(a, b) == a[1] * b[2] = b[1] * a[2]

\* min(a, b) on integers
Least(a, b) == IF a <= b THEN a ELSE b

TimeSeriesPoint(timestamp, value) == [timestamp |-> timestamp, value |-> value]

\* the engine's fields
Analytics(evs, risks, compliances, buckets, started) ==
    [events |-> evs, risk_history |-> risks, compliance_history |-> compliances,
     alert_buckets |-> buckets, start_time |-> started]

\* [o for o in tracked_objects if o.class_name == ObjectClass.PERSON]
Persons(tracked_objects) ==
    SelectSeq(tracked_objects, LAMBDA o : o.class_name = PERSON)

\* sum(1 for e in events if e.event_type == type)
CountType(events_in, type) ==
    Len(SelectSeq(events_in, LAMBDA e : e.event_type = type))

\* every person not seen without a hardhat
CompliantUnlessOff(persons) ==
    Len(SelectSeq(persons, LAMBDA p : p.ppe_status # HARDHAT_OFF))

\* sum(1 for p in persons if p.ppe_status == PPEStatus.HARDHAT_ON)
Compliant(persons) ==
    Len(SelectSeq(persons, LAMBDA p : p.ppe_status = HARDHAT_ON))

\* the compliance of ingest_frame
ComplianceRate(tracked_objects) ==
    LET persons == Persons(tracked_objects)
    IN  IF Len(persons) > 0 THEN <<Compliant(persons), Len(persons)>> ELSE <<1, 1>>

\* the compliance taken as the share of risk
PpeComponentOfCompliance(compliance_rate) == 80 * compliance_rate[1]

\* (1.0 - compliance_rate) * 40.0, in halves of a point over the denominator
PpeComponent(compliance_rate) == 80 * (compliance_rate[2] - compliance_rate[1])

\* _compute_risk; the components are counted in halves of a point
ComputeRisk(tracked_objects, recent_events, compliance_rate) ==
    LET d == compliance_rate[2]
        ppe_component == PpeComponent(compliance_rate)
        zone_component == Least(CountType(recent_events, "zone_entry") * 16, 50)
        near_miss_component == Least(CountType(recent_events, "near_miss") * 25, 50)
        density_component == Least(Len(Persons(tracked_objects)) * 3, 20)
        total == ppe_component
                   + (zone_component + near_miss_component + density_component) * d
    IN  IF total > 200 * d THEN <<100, 1>> ELSE <<total, 2 * d>>

\* the bucket loop of ingest_frame: one count per event
AddAlerts(buckets, minute_bucket, n) ==
    IF n = 0 THEN buckets
    ELSE Put(buckets, minute_bucket, Get(buckets, minute_bucket, 0) + n)

\* the whole log handed to _compute_risk
LoggedEvents(a, events_in) == a.events \o events_in

\* the events ingest_frame hands to _compute_risk: those of this call
RecentEvents(a, events_in) == events_in

\* the events of the call put in front of the log
ExtendNewestFirst(log, events_in) == events_in \o log

\* self._events.extend(events)
Extend(log, events_in) == log \o events_in

\* ingest_frame at time t: the engine after it, and what it returns
IngestFrame(a, tracked_objects, events_in, frame_number, t) ==
    LET minute_bucket == (t - a.start_time) \div 60
        compliance_rate == ComplianceRate(tracked_objects)
        risk_score == ComputeRisk(tracked_objects, RecentEvents(a, events_in),
                                  compliance_rate)
    IN  [engine |-> Analytics(Extend(a.events, events_in),
                              Append(a.risk_history, TimeSeriesPoint(t, risk_score)),
                              Append(a.compliance_history,
                                     TimeSeriesPoint(t, compliance_rate)),
                              AddAlerts(a.alert_buckets, minute_bucket, Len(events_in)),
                              a.start_time),
         risk_score |-> risk_score,
         compliance_rate |-> compliance_rate]

\* a + b on fractions
Plus(a, b) ==
    IF a[2] = b[2] THEN <<a[1] + b[1], a[2]>>
    ELSE <<a[1] * b[2] + b[1] * a[2], a[2] * b[2]>>

\* [p.value for p in history]
Values(history) == [i \in DOMAIN history |-> history[i].value]

\* sum(vals[lo..hi]), max(vals[lo..hi]) of a range that is not empty, by
\* halves: on fractions the order of the additions makes no difference
RECURSIVE Sum(_, _, _)
Sum(vals, lo, hi) ==
    IF lo = hi THEN vals[lo]
    ELSE LET mid == (lo + hi) \div 2
         IN  Plus(Sum(vals, lo, mid), Sum(vals, mid + 1, hi))

RECURSIVE Max(_, _, _)
Max(vals, lo, hi) ==
    IF lo = hi THEN vals[lo]
    ELSE LET mid == (lo + hi) \div 2
             a == Max(vals, lo, mid)
             b == Max(vals, mid + 1, hi)
         IN  IF Less(a, b) THEN b ELSE a

\* sum(vals) / len(vals) if vals else otherwise
Mean(vals, otherwise) ==
    IF Len(vals) = 0 THEN otherwise
    ELSE LET total == Sum(vals, 1, Len(vals))
         IN  <<total[1], total[2] * Len(vals)>>

\* sorted(keys)
RECURSIVE Sorted(_)
Sorted(S) ==
    IF S = {} THEN <<>>
    ELSE LET m == CHOOSE x \in S : \A y \in S : x <= y
         IN  <<m>> \o Sorted(S \ {m})

\* the oldest SERIES_SHOWN points of a series
Oldest(history) ==
    IF Len(history) > SERIES_SHOWN THEN SubSeq(history, 1, SERIES_SHOWN) ELSE history

\* history[-200:]
Newest(history) ==
    IF Len(history) > SERIES_SHOWN
    THEN SubSeq(history, Len(history) - SERIES_SHOWN + 1, Len(history))
    ELSE history

\* get_analytics: the Analytics it returns; the engine is left as it is
GetAnalytics(a) ==
    [total_detections |-> Len(a.events),
     total_events |-> Len(a.events),
     critical_events |-> Len(SelectSeq(a.events, LAMBDA e : e.severity = CRITICAL)),
     warning_events |-> Len(SelectSeq(a.events, LAMBDA e : e.severity = WARNING)),
     info_events |-> Len(SelectSeq(a.events, LAMBDA e : e.severity = INFO)),
     avg_risk_score |-> Mean(Values(a.risk_history), <<0, 1>>),
     peak_risk_score |-> IF a.risk_history = <<>> THEN <<0, 1>>
                         ELSE Max(Values(a.risk_history), 1, Len(a.risk_history)),
     compliance_rate |-> Mean(Values(a.compliance_history), <<1, 1>>),
     ppe_violations |-> CountType(a.events, "ppe_violation"),
     zone_violations |-> CountType(a.events, "zone_entry"),
     near_misses |-> CountType(a.events, "near_miss"),
     fallen_workers |-> CountType(a.events, "fallen_worker"),
     risk_over_time |-> Newest(a.risk_history),
     compliance_over_time |-> Newest(a.compliance_history),
     event_type_counts |->
         [type \in {a.events[i].event_type : i \in DOMAIN a.events} |->
             CountType(a.events, type)],
     alerts_per_minute |->
         LET buckets == Sorted(DOMAIN a.alert_buckets)
         IN  [i \in DOMAIN buckets |->
                 TimeSeriesPoint(a.start_time + buckets[i] * 60,
                                 a.alert_buckets[buckets[i]])]]

\* AnalyticsEngine.reset at time t
ResetAnalytics(t) == Analytics(<<>>, <<>>, <<>>, <<>>, t)

---------------------------------------------------------------------------
(* The tracker on its own: update with any frame, and reset.               *)

TrackerNow == Tracker(objects, disappeared, next_id, <<>>, {}, {})

InitTracker ==
    /\ next_id = 0
    /\ objects = <<>>
    /\ disappeared = <<>>
    /\ call = [op |-> "init", n |-> 0, dets |-> <<>>, objects |-> <<>>]
    /\ issued = <<>>
    /\ missed = <<>>
    /\ gone = {}

\* what a call of update leaves behind: t before it, u after it, n the
\* number of updates a short session has made
Observe(t, u, ds, n) ==
    /\ call' = [op |-> "update", n |-> n, dets |-> ds, objects |-> t.objects]
    /\ issued' = issued \o u.registered
    /\ missed' = [tid \in DOMAIN missed \cup Ids(u.objects) |->
                    IF tid \in Ids(t.objects)
                    THEN IF tid \in u.updated THEN 0 ELSE missed[tid] + 1
                    ELSE IF tid \in DOMAIN missed THEN missed[tid] ELSE 0]
    /\ gone' = gone \cup u.removed

\* the results update(ds) may have, the argsort taking any of its orders
Updates(ds) ==
    {Update(TrackerNow, ds, rows) :
        rows \in (IF Len(ds) = 0 \/ Len(objects) = 0 THEN {<<>>}
                  ELSE RowOrders(DistMatrix(objects, ds)))}

UpdateCall(ds, n) ==
    \E u \in Updates(ds) :
        /\ next_id' = u.next_id
        /\ objects' = u.objects
        /\ disappeared' = u.disappeared
        /\ Observe(TrackerNow, u, ds, n)

\* a short session of rich frames
TrackerUpdate ==
    /\ call.n < MaxFrames
    /\ \E ds \in Frames(TrackerDets, MaxDets) : UpdateCall(ds, call.n + 1)
    /\ UNCHANGED <<zoneVars, edVars, edObs, restVars>>

\* a long session of poor frames
EvictUpdate ==
    /\ \E ds \in Frames(EvictDets, MaxDets) :
          /\ UpdateCall(ds, 0)
          /\ next_id' <= MaxIds
          /\ \A i \in 1..Len(objects') : Len(objects'[i].trajectory) <= MaxTraj
    /\ UNCHANGED <<zoneVars, edVars, edObs, restVars>>

ResetTrackerVars ==
    /\ next_id' = ResetTracker.next_id
    /\ objects' = ResetTracker.objects
    /\ disappeared' = ResetTracker.disappeared
    /\ call' = [op |-> "reset", n |-> 0, dets |-> <<>>, objects |-> objects]
    /\ issued' = <<>>
    /\ missed' = <<>>
    /\ gone' = {}

TrackerReset ==
    /\ ResetTrackerVars
    /\ UNCHANGED <<zoneVars, edVars, edObs, restVars>>

---------------------------------------------------------------------------
(* The zone engine and the event detector: construction, and what a call   *)
(* of detect_events leaves behind                                          *)

\* time.time() when the session starts: a wall-clock reading, far more
\* seconds from 0 than any cooldown
Epoch == 100

(* Bounds of the observations and of the sessions below.                   *)
MaxOnRun == 9        \* calls in a row with the hardhat on that are counted
MaxFallenRun == 6    \* calls in a row a person stays fallen (SpecFallen)
NearMissHorizon == 12  \* seconds a session lasts (SpecNearMiss)
LoiterHorizon == 44    \* seconds a session lasts (SpecLoiter)

\* the site of the model: two overlapping rectangles.  A centroid at x = 20
\* is inside the first only, one at 60 is inside both, one at 120 lies on
\* the edge of the second and one at 190 is far from both.
SiteZones ==
    [z \in {"Z1", "Z2"} |->
        IF z = "Z1"
        THEN ZoneConfig("Z1", "pit", "danger",
                        <<<<0, 0>>, <<100, 0>>, <<100, 100>>, <<0, 100>>>>)
        ELSE ZoneConfig("Z2", "crane", "restricted",
                        <<<<40, 0>>, <<120, 0>>, <<120, 100>>, <<40, 100>>>>)]

DetectorNow ==
    Detector(prev_ppe, loiter_state, near_miss_cooldown, fallen_counts,
             fallen_alerted, <<>>)

AnalyticsNow ==
    Analytics(analytics_events, risk_history, compliance_history, alert_buckets,
              start_time)

NoHistory ==
    [ppe |-> <<>>, on_run |-> <<>>, fallen_run |-> <<>>, fallen_alerts |-> <<>>,
     still_since |-> <<>>, last_loiter |-> <<>>, last_near |-> <<>>]

\* What the calls up to and including this one have shown, read off the
\* arguments and the returned events alone:
\*   ppe            the status a person had when last passed in
\*   on_run         the calls in a row, up to now, it had the hardhat on
\*   fallen_run     the calls in a row, up to now, it was flagged fallen
\*   fallen_alerts  the fallen_worker events returned for it (0, 1, many)
\*   still_since    the time of the first call of its present unbroken run
\*                  of calls in a zone with speed below 3.0
\*   last_loiter    the time of the last loitering event returned for it
\*   last_near      the time of the last near_miss event returned for a pair
NextHistory(h, tracked, events, t) ==
    LET pids == {tracked[i].track_id :
                    i \in {j \in 1..Len(tracked) : tracked[j].class_name = PERSON}}
        obj(tid) == tracked[IndexOf(tracked, tid)]
        fired(type, tid) ==
            \E k \in 1..Len(events) :
                events[k].event_type = type /\ events[k].track_id = tid
        still(tid) ==
            /\ obj(tid).in_zones # {}
            /\ obj(tid).velocity[1] * obj(tid).velocity[1]
                 + obj(tid).velocity[2] * obj(tid).velocity[2] < 9
        near == {<<events[k].description[1], events[k].description[2]>> :
                    k \in {j \in 1..Len(events) : events[j].event_type = "near_miss"}}
    IN  [ppe |-> [tid \in (DOMAIN h.ppe) \cup pids |->
                    IF tid \in pids THEN obj(tid).ppe_status ELSE h.ppe[tid]],
         on_run |-> [tid \in (DOMAIN h.on_run) \cup pids |->
                    IF tid \notin pids THEN h.on_run[tid]
                    ELSE IF obj(tid).ppe_status # HARDHAT_ON THEN 0
                    ELSE IF Get(h.on_run, tid, 0) < MaxOnRun
                    THEN Get(h.on_run, tid, 0) + 1 ELSE MaxOnRun],
         fallen_run |-> [tid \in (DOMAIN h.fallen_run) \cup pids |->
                    IF tid \notin pids THEN h.fallen_run[tid]
                    ELSE IF obj(tid).is_fallen
                    THEN Get(h.fallen_run, tid, 0) + 1 ELSE 0],
         fallen_alerts |-> [tid \in (DOMAIN h.fallen_alerts) \cup pids |->
                    IF fired("fallen_worker", tid) /\ Get(h.fallen_alerts, tid, 0) < 2
                    THEN Get(h.fallen_alerts, tid, 0) + 1
                    ELSE Get(h.fallen_alerts, tid, 0)],
         still_since |-> [tid \in {x \in (DOMAIN h.still_since) \cup pids :
                                      x \in pids => still(x)} |->
                    IF tid \in DOMAIN h.still_since THEN h.still_since[tid] ELSE t],
         last_loiter |-> [tid \in (DOMAIN h.last_loiter)
                                    \cup {x \in pids : fired("loitering", x)} |->
                    IF tid \in pids /\ fired("loitering", tid)
                    THEN t ELSE h.last_loiter[tid]],
         last_near |-> [key \in (DOMAIN h.last_near) \cup near |->
                    IF key \in near THEN t ELSE h.last_near[key]]]

InitZoneEngine(zs) ==
    /\ zones = zs
    /\ prev_occupancy = <<>>

InitDetector ==
    /\ prev_ppe = ResetDetector.prev_ppe
    /\ loiter_state = ResetDetector.loiter_state
    /\ near_miss_cooldown = ResetDetector.near_miss_cooldown
    /\ fallen_counts = ResetDetector.fallen_counts
    /\ fallen_alerted = ResetDetector.fallen_alerted
    /\ now = Epoch
    /\ out = [op |-> "init", tracked |-> <<>>, entries |-> <<>>, exits |-> <<>>,
              pairs |-> <<>>, zones |-> <<>>, events |-> <<>>, t |-> Epoch,
              before |-> NoHistory]
    /\ hist = NoHistory

InitAnalytics ==
    /\ analytics_events = ResetAnalytics(Epoch).events
    /\ risk_history = ResetAnalytics(Epoch).risk_history
    /\ compliance_history = ResetAnalytics(Epoch).compliance_history
    /\ alert_buckets = ResetAnalytics(Epoch).alert_buckets
    /\ start_time = Epoch

\* config.py: SKIP_FRAMES as shipped
DEFAULT_SKIP_FRAMES == 3

FrameResult(frame_number, detections, tracked, events_in, risk, compliance) ==
    [frame_number |-> frame_number, detections |-> detections,
     tracked_objects |-> tracked, events |-> events_in,
     risk_score |-> risk, compliance_rate |-> compliance]

\* what a call left behind: the frame it was given, the exception it raised
\* if any, whether it went past the skip check, the component calls it
\* made, what it returned
Ran(op, frame, raised, admitted, calls, result) ==
    [op |-> op, frame |-> frame, raised |-> raised, admitted |-> admitted,
     calls |-> calls, result |-> result]


\* Pipeline.__init__, with the skip interval n configured
InitPipeline(n) ==
    /\ frame_count = 0
    /\ last_result = <<>>
    /\ SKIP_FRAMES = n
    /\ ran = Ran("init", <<>>, "", FALSE, <<>>, <<>>)

\* no session has been started
InitSessions == sessions = <<>>

InitRest == InitAnalytics /\ InitPipeline(DEFAULT_SKIP_FRAMES) /\ InitSessions

\* the pipeline as constructed
Init == InitTracker /\ InitZoneEngine(<<>>) /\ InitDetector /\ InitRest

\* the pipeline once the zones of the site have been posted
InitSite == InitTracker /\ InitZoneEngine(SiteZones) /\ InitDetector /\ InitRest

\* detect_events called at time t
DetectEventsCall(tracked, entries, exits, pairs, frame_number, t) ==
    LET e == DetectEvents(DetectorNow, tracked, entries, exits, pairs, zones,
                          frame_number, t)
    IN  /\ prev_ppe' = e.prev_ppe
        /\ loiter_state' = e.loiter_state
        /\ near_miss_cooldown' = e.near_miss_cooldown
        /\ fallen_counts' = e.fallen_counts
        /\ fallen_alerted' = e.fallen_alerted
        /\ now' = t
        /\ out' = [op |-> "detect_events", tracked |-> tracked,
                   entries |-> entries, exits |-> exits, pairs |-> pairs,
                   zones |-> zones, events |-> e.events, t |-> t,
                   before |-> hist]
        /\ hist' = NextHistory(hist, tracked, e.events, t)

---------------------------------------------------------------------------
(* pipeline.py: Pipeline.process_frame and Pipeline.reset.  A frame is     *)
(* given by the detections YOLODetector.detect finds in it.                *)

\* the attributes class ZoneEngine defines
ZoneEngineOps ==
    {"zones", "add_zone", "remove_zone", "check_zones", "detect_proximity", "reset"}

\* the component calls of a frame that is run, in the order of the code
Stages ==
    <<"detect", "update", "check_zones", "detect_proximity", "detect_events",
      "ingest_frame">>

\* self._frame_count % settings.SKIP_FRAMES != 1 and self._last_result is not None
Skipped(count, skip, last) == count % skip # 1 /\ last # <<>>

\* steps 1 to 6 of process_frame and the result it stores, for a frame that
\* shows ds and is counted as count, the tracker returning u
RunStages(ds, u, count, t) ==
    LET cz == CheckZones(zones, prev_occupancy, u.objects)
    IN  /\ next_id' = u.next_id
        /\ objects' = cz.objects
        /\ disappeared' = u.disappeared
        /\ Observe(TrackerNow, u, ds, call.n + 1)
        /\ prev_occupancy' = cz.current
        /\ zones' = zones
        /\ DetectEventsCall(cz.objects, cz.entries, cz.exits,
                            DetectProximity(cz.objects), count, t)
        /\ LET r == IngestFrame(AnalyticsNow, cz.objects, out'.events, count, t)
               result == FrameResult(count, ds, cz.objects, out'.events,
                                     r.risk_score, r.compliance_rate)
           IN  /\ analytics_events' = r.engine.events
               /\ risk_history' = r.engine.risk_history
               /\ compliance_history' = r.engine.compliance_history
               /\ alert_buckets' = r.engine.alert_buckets
               /\ start_time' = r.engine.start_time
               /\ last_result' = <<result>>
               /\ ran' = Ran("process_frame", ds, "", TRUE, Stages, <<result>>)

\* the skip check placed after steps 1 and 2: a skipped frame is detected
\* and tracked before the cached result is returned
FromSkipCheckAfterTracking(ds, count, t) ==
    /\ frame_count' = count
    /\ SKIP_FRAMES' = SKIP_FRAMES
    /\ IF Skipped(count, SKIP_FRAMES, last_result)
       THEN /\ last_result' = last_result
            /\ ran' = Ran("process_frame", ds, "", FALSE, <<"detect", "update">>,
                          last_result)
            /\ now' = t
            /\ \E u \in Updates(ds) :
                  /\ next_id' = u.next_id
                  /\ objects' = u.objects
                  /\ disappeared' = u.disappeared
                  /\ Observe(TrackerNow, u, ds, call.n + 1)
            /\ UNCHANGED <<zoneVars, edVars, out, hist, analyticsVars>>
       ELSE \E u \in Updates(ds) : RunStages(ds, u, count, t)

\* process_frame from its skip check on, at time t
FromSkipCheck(ds, count, t) ==
    /\ frame_count' = count
    /\ SKIP_FRAMES' = SKIP_FRAMES
    /\ IF Skipped(count, SKIP_FRAMES, last_result)
       THEN /\ last_result' = last_result
            /\ ran' = Ran("process_frame", ds, "", FALSE, <<>>, last_result)
            /\ now' = t
            /\ UNCHANGED <<trackerVars, trackerObs, zoneVars, edVars, out, hist,
                           analyticsVars>>
       ELSE \E u \in Updates(ds) : RunStages(ds, u, count, t)

\* process_frame after it has read the frame counter: the frame is counted
\* as count, the zone engine is asked for set_frame_size, and the rest
\* follows if it has one
Counted(ds, count, t) ==
    IF "set_frame_size" \in ZoneEngineOps
    THEN FromSkipCheck(ds, count, t)
    ELSE /\ frame_count' = count
         /\ ran' = Ran("process_frame", ds, "AttributeError", FALSE, <<>>,
                       <<>>)
         /\ now' = t
         /\ UNCHANGED <<trackerVars, trackerObs, zoneVars, edVars, out, hist,
                        analyticsVars, last_result, SKIP_FRAMES>>

\* process_frame at time t, run without interruption
ProcessFrame(ds, t) == Counted(ds, frame_count + 1, t)

\* a reset that drops the configured zones with the occupancy
ResetZonesCleared(zs) == <<>>

\* ZoneEngine.reset: _zones and _polygons are not touched
ResetZones(zs) == zs

\* Pipeline.reset; the zones stay
ResetPipeline ==
    /\ ResetTrackerVars
    /\ prev_ppe' = ResetDetector.prev_ppe
    /\ loiter_state' = ResetDetector.loiter_state
    /\ near_miss_cooldown' = ResetDetector.near_miss_cooldown
    /\ fallen_counts' = ResetDetector.fallen_counts
    /\ fallen_alerted' = ResetDetector.fallen_alerted
    /\ analytics_events' = ResetAnalytics(now).events
    /\ risk_history' = ResetAnalytics(now).risk_history
    /\ compliance_history' = ResetAnalytics(now).compliance_history
    /\ alert_buckets' = ResetAnalytics(now).alert_buckets
    /\ start_time' = ResetAnalytics(now).start_time
    /\ prev_occupancy' = ResetOccupancy
    /\ zones' = ResetZones(zones)
    /\ frame_count' = 0
    /\ last_result' = <<>>
    /\ SKIP_FRAMES' = SKIP_FRAMES
    /\ now' = now
    /\ out' = [op |-> "reset", tracked |-> <<>>, entries |-> <<>>, exits |-> <<>>,
               pairs |-> <<>>, zones |-> <<>>, events |-> <<>>, t |-> now,
               before |-> hist]
    /\ hist' = NoHistory
    /\ ran' = Ran("reset", <<>>, "", FALSE, <<>>, <<>>)

---------------------------------------------------------------------------
(* The tracker on its own: the specifications                              *)

NextTracker == TrackerUpdate \/ TrackerReset
SpecTracker == Init /\ [][NextTracker]_vars

NextEvict == EvictUpdate \/ TrackerReset
SpecEvict == Init /\ [][NextEvict]_vars

---------------------------------------------------------------------------
(* Frames through tracker, zone engine and event detector, as steps 2 to 5 *)
(* of Pipeline.process_frame chain them, one second apart.  The first      *)
(* frame populates the scene; the frames after it show one detection or    *)
(* none, so that one track moves while the others stay where they are.     *)

ZoneFrames == 4   \* frames of a session (SpecZones)

FramesAt(n) ==
    IF n = 0 THEN Frames(TrackerDets, MaxDets) ELSE Frames(TrackerDets, 1)

FrameSteps ==
    /\ call.n < ZoneFrames
    /\ \E ds \in FramesAt(call.n) : \E u \in Updates(ds) :
          LET cz == CheckZones(zones, prev_occupancy, u.objects)
          IN  /\ next_id' = u.next_id
              /\ objects' = cz.objects
              /\ disappeared' = u.disappeared
              /\ Observe(TrackerNow, u, ds, call.n + 1)
              /\ prev_occupancy' = cz.current
              /\ zones' = zones
              /\ DetectEventsCall(cz.objects, cz.entries, cz.exits,
                                  DetectProximity(cz.objects), call.n + 1, now + 1)
              /\ UNCHANGED restVars

NextZones == FrameSteps
SpecZones == InitSite /\ [][NextZones]_vars

---------------------------------------------------------------------------
(* The event detector on scenes handed to it: steps 3 to 5 of              *)
(* Pipeline.process_frame on a list of tracked objects.  All boxes lie on  *)
(* the line y = 50; x = 10 is inside the first zone only, x = 110 inside    *)
(* the second only, x >= 190 is in no zone.  Time is counted in whole      *)
(* seconds; a rule that does not read the clock is driven by calls that    *)
(* land in the same second.                                                *)

\* a tracked object as the tracker returns it, before check_zones
Seen(tid, cls, x, ppe, velocity, fallen) ==
    LET bbox == IF fallen THEN FallenBox(x) ELSE UprightBox(x)
    IN  TrackedObject(tid, cls, bbox, Centroid(bbox), ppe, velocity,
                      <<Centroid(bbox)>>, fallen, {})

SceneCall(tracked, t) ==
    LET cz == CheckZones(zones, prev_occupancy, tracked)
    IN  /\ prev_occupancy' = cz.current
        /\ zones' = zones
        /\ DetectEventsCall(cz.objects, cz.entries, cz.exits,
                            DetectProximity(cz.objects), 1, t)
        /\ UNCHANGED <<trackerVars, trackerObs, restVars>>

\* two persons whose hardhat status changes at will, and a car
PpeScenes ==
    {<<Seen(0, PERSON, 190, a, <<0, 0>>, FALSE),
       Seen(1, PERSON, 300, b, <<0, 0>>, FALSE),
       Seen(2, CAR, 420, UNKNOWN, <<0, 0>>, FALSE)>> :
        a, b \in {HARDHAT_ON, HARDHAT_OFF, UNKNOWN}}

PpeCall == \E tracked \in PpeScenes : SceneCall(tracked, now)

NextPPE == PpeCall
SpecPPE == InitSite /\ [][NextPPE]_vars

\* two persons who fall and get up at will, and a car
FallenScenes ==
    {<<Seen(0, PERSON, 190, UNKNOWN, <<0, 0>>, a),
       Seen(1, PERSON, 300, UNKNOWN, <<0, 0>>, b),
       Seen(2, CAR, 420, UNKNOWN, <<0, 0>>, FALSE)>> : a, b \in BOOLEAN}

FallenCall ==
    \E tracked \in FallenScenes :
        /\ SceneCall(tracked, now)
        /\ \A tid \in DOMAIN fallen_counts' : fallen_counts'[tid] <= MaxFallenRun

NextFallen == FallenCall
SpecFallen == InitSite /\ [][NextFallen]_vars

\* a car at x = 300 and a person on either side of it, each 60 or 100
\* pixels away
NearMissScenes ==
    {<<Seen(0, PERSON, a, UNKNOWN, <<0, 0>>, FALSE),
       Seen(1, PERSON, b, UNKNOWN, <<0, 0>>, FALSE),
       Seen(2, CAR, 300, UNKNOWN, <<0, 0>>, FALSE)>> :
        a \in {240, 200}, b \in {360, 400}}

NearMissSteps == {2, 3}

NearMissCall ==
    \E dt \in NearMissSteps :
        /\ now + dt <= Epoch + NearMissHorizon
        /\ \E tracked \in NearMissScenes : SceneCall(tracked, now + dt)

NextNearMiss == NearMissCall
SpecNearMiss == InitSite /\ [][NextNearMiss]_vars

\* a person inside the first zone or in none, at a speed just below or at
\* 3.0, and a car standing in the second zone
LoiterScenes ==
    {<<Seen(0, PERSON, x, UNKNOWN, v, FALSE),
       Seen(1, CAR, 110, UNKNOWN, <<0, 0>>, FALSE)>> :
        x \in {10, 300}, v \in {<<2, 2>>, <<3, 0>>}}

LoiterSteps == {4, 12}

LoiterCall ==
    \E dt \in LoiterSteps :
        /\ now + dt <= Epoch + LoiterHorizon
        /\ \E tracked \in LoiterScenes : SceneCall(tracked, now + dt)

NextLoiter == LoiterCall
SpecLoiter == InitSite /\ [][NextLoiter]_vars

---------------------------------------------------------------------------
(* The analytics engine on its own: ingest_frame on a crowd and a list of  *)
(* events, after a history of up to MaxWarm other frames                   *)

MaxCompliant == 1    \* persons with the hardhat on
MaxBare == 7         \* persons with the hardhat off
MaxEntries == 4      \* zone_entry events of a frame
MaxNearMisses == 2   \* near_miss events of a frame
MaxWarm == 2         \* frames ingested before the observed one

\* persons with the hardhat on, off and unseen, and cars, standing about
Crowd(on, off, unknown, cars) ==
    [i \in 1..(on + off + unknown + cars) |->
        Seen(i - 1,
             IF i <= on + off + unknown THEN PERSON ELSE CAR,
             300,
             IF i <= on THEN HARDHAT_ON
             ELSE IF i <= on + off THEN HARDHAT_OFF ELSE UNKNOWN,
             <<0, 0>>, FALSE)]

\* zone_entry, near_miss and other events of one frame
Alerts(entries, near_misses, others) ==
    [i \in 1..(entries + near_misses + others) |->
        IF i <= entries
        THEN Event(1, "zone_entry", CRITICAL, <<0, "danger", "pit">>, 0, "Z1")
        ELSE IF i <= entries + near_misses
        THEN Event(1, "near_miss", CRITICAL, <<0, 1, 0>>, 0, NONE)
        ELSE Event(1, "zone_exit", INFO, <<0, "pit">>, 0, "Z1")]

\* the frames of the history, as the counts of Crowd and of Alerts
WarmFrames == {<<1, 0, 0, 0, 0, 0, 0>>, <<0, 1, 0, 1, 2, 1, 1>>, <<0, 0, 0, 0, 1, 0, 0>>}

IngestCall(op, tracked, events_in) ==
    LET r == IngestFrame(AnalyticsNow, tracked, events_in, 1, now + 1)
    IN  /\ analytics_events' = r.engine.events
        /\ risk_history' = r.engine.risk_history
        /\ compliance_history' = r.engine.compliance_history
        /\ alert_buckets' = r.engine.alert_buckets
        /\ start_time' = r.engine.start_time
        /\ now' = now + 1
        /\ ran' = Ran(op, <<>>, "", TRUE, <<"ingest_frame">>,
                       <<FrameResult(1, <<>>, tracked, events_in,
                                     r.risk_score, r.compliance_rate)>>)
        /\ UNCHANGED <<trackerVars, trackerObs, zoneVars, edVars, out, hist,
                       pipelineVars, sessionVars>>

IngestWarm ==
    /\ ran.op # "ingest_frame"
    /\ Len(risk_history) < MaxWarm
    /\ \E f \in WarmFrames :
          IngestCall("warm", Crowd(f[1], f[2], f[3], f[4]), Alerts(f[5], f[6], f[7]))

IngestObserved ==
    /\ ran.op # "ingest_frame"
    /\ \E on \in 0..MaxCompliant, off \in 0..MaxBare, unknown \in 0..1, cars \in 0..1 :
       \E z \in 0..MaxEntries, n \in 0..MaxNearMisses, o \in 0..1 :
          IngestCall("ingest_frame", Crowd(on, off, unknown, cars), Alerts(z, n, o))

NextRisk == IngestWarm \/ IngestObserved
SpecRisk == Init /\ [][NextRisk]_vars

---------------------------------------------------------------------------
(* Videos through Pipeline.process_video, one after the other, with         *)
(* process_frame taken from its skip check on: the frames of a video show   *)
(* nobody, or one person at x = 20 (first zone), 60 (both zones) or 190    *)
(* (no zone), one second apart.  on_event is the consumer.                 *)

MaxSkip == 3           \* settings.SKIP_FRAMES ranges over 1..MaxSkip
MaxStreamFrames == 5   \* frames read from one video
Videos == {"first", "second"}

\* a session about to start: its place in the handler, its capture, the
\* frames it has read, the status of its job row, what it has sent to its
\* consumer, what its frame loop has seen turn by turn, whether and when its
\* consumer went away, the worker thread it waits for and the frame counter
\* that thread has read, whether another session has touched the pipeline
\* while it ran, the messages it has received from its peer, the frames its
\* video holds, how many of the messages it has yielded its consumer has
\* taken, and the zone maps the stages of its running process_frame call have
\* read
Session(kind) ==
    [kind |-> kind, pc |-> "start", cap |-> "none", idx |-> 0,
     status |-> "ready", sent |-> <<>>, log |-> <<>>, consumer |-> "here",
     failure |-> "", cancelled |-> FALSE, cancelled_at |-> 0,
     thread |-> "none", local |-> 0, disturbed |-> FALSE, got |-> <<>>,
     frames |-> 0, taken |-> 0, seen |-> <<>>]

Last == sessions[Len(sessions)]

SkipXs == {20, 60, 190}
SkipFrames ==
    {<<>>} \cup {<<Detection(PERSON, UprightBox(x), HARDHAT_ON)>> : x \in SkipXs}

\* one turn of the frame loop after process_frame has returned r: the
\* callbacks, and what the turn has shown
Turn(s, r) ==
    LET events == r.result[1].events
    IN  [s EXCEPT !.idx = @ + 1,
                  !.sent = @ \o [i \in 1..Len(events) |->
                                    [idx |-> s.idx + 1, event |-> events[i]]],
                  !.log = Append(@, [idx |-> s.idx + 1, admitted |-> r.admitted,
                                     result |-> r.result[1]])]

\* Settings(): SKIP_FRAMES from the environment
InitSkip ==
    /\ InitTracker /\ InitZoneEngine(SiteZones) /\ InitDetector /\ InitAnalytics
    /\ \E n \in 1..MaxSkip : InitPipeline(n)
    /\ InitSessions

\* process_video up to its loop
VideoStart ==
    /\ Len(sessions) < Cardinality(Videos)
    /\ IF sessions = <<>> THEN TRUE ELSE Last.pc = "done"
    /\ \E opened \in BOOLEAN :
          IF opened
          THEN /\ ResetPipeline
               /\ sessions' = Append(sessions, [Session("video") EXCEPT
                                                   !.pc = "loop", !.cap = "open"])
          ELSE /\ sessions' = Append(sessions, [Session("video") EXCEPT
                                                   !.pc = "done",
                                                   !.failure = "RuntimeError"])
               /\ UNCHANGED <<trackerVars, trackerObs, zoneVars, edVars, edObs,
                              analyticsVars, pipelineVars, pipelineObs>>

\* a frame is read and goes through the loop body
VideoFrame ==
    /\ IF sessions = <<>> THEN FALSE ELSE Last.pc = "loop"
    /\ Last.idx < MaxStreamFrames
    /\ \E ds \in SkipFrames :
          /\ FromSkipCheck(ds, frame_count + 1, now + 1)
          /\ sessions' = [sessions EXCEPT ![Len(sessions)] = Turn(@, ran')]

\* no frame is left: break, finally cap.release()
VideoEnd ==
    /\ IF sessions = <<>> THEN FALSE ELSE Last.pc = "loop"
    /\ sessions' = [sessions EXCEPT ![Len(sessions)].pc = "done",
                                    ![Len(sessions)].cap = "released"]
    /\ UNCHANGED <<trackerVars, trackerObs, zoneVars, edVars, edObs,
                   analyticsVars, pipelineVars, pipelineObs>>

NextSkip == VideoStart \/ VideoFrame \/ VideoEnd
SpecSkip == InitSkip /\ [][NextSkip]_vars

---------------------------------------------------------------------------
(* main.py: the sessions of the server on the one pipeline of the module.  *)
(* A job stream (GET /api/jobs/{id}/stream) is the generator                *)
(* event_generator, taken from one point where it can be suspended to the  *)
(* next; its process_frame runs in a worker thread.  A live session        *)
(* (/ws/live) calls process_frame on the event loop.  All calls land in    *)
(* the same second.                                                        *)

MaxSessions == 2      \* sessions started
MaxVideoFrames == 2   \* frames read from the video of a job

Running(s) == s.pc # "done"

\* what a call on the pipeline by session k does to the other sessions
Disturb(ss, k) ==
    [i \in DOMAIN ss |->
        IF i # k /\ Running(ss[i]) THEN [ss[i] EXCEPT !.disturbed = TRUE] ELSE ss[i]]

\* the consumer is gone and the generator is resumed with the cancellation
\* treated as a failure
OnCancelledAsError(s) ==
    [s EXCEPT !.pc = "done", !.consumer = "gone", !.cancelled = TRUE,
              !.cancelled_at = s.idx, !.sent = Append(@, "error"),
              !.cap = IF @ = "open" THEN "released" ELSE @]

\* the consumer is gone and the generator is resumed with CancelledError
\* (or closed): the handler logs it, finally releases the capture
OnCancelled(s) ==
    [s EXCEPT !.pc = "done", !.consumer = "gone", !.cancelled = TRUE,
              !.cancelled_at = s.idx,
              !.cap = IF @ = "open" THEN "released" ELSE @]

\* except Exception: the error event; finally: cap.release()
OnException(s, exc) ==
    [s EXCEPT !.pc = "done", !.failure = exc, !.sent = Append(@, "error"),
              !.cap = "released"]

\* event_generator up to its await of update_job: reset, status processing
JobStreamStart ==
    /\ Len(sessions) < MaxSessions
    /\ ResetPipeline
    /\ sessions' = Append(Disturb(sessions, 0),
                          [Session("job") EXCEPT !.pc = "opening",
                                                 !.status = "processing"])

\* cv2.VideoCapture(video_path); if it is not opened: the error event, return
JobOpen(k) ==
    /\ sessions[k].kind = "job" /\ sessions[k].pc = "opening"
    /\ \E opened \in BOOLEAN :
          sessions' = [sessions EXCEPT ![k] =
                          IF opened
                          THEN [@ EXCEPT !.pc = "reading", !.cap = "open"]
                          ELSE [@ EXCEPT !.pc = "done", !.sent = Append(@, "error"),
                                         !.failure = "Cannot open video"]]
    /\ UNCHANGED <<trackerVars, trackerObs, zoneVars, edVars, edObs,
                   analyticsVars, pipelineVars, pipelineObs>>

\* cap.read() gives a frame: it is handed to a worker thread and awaited
JobRead(k) ==
    /\ sessions[k].kind = "job" /\ sessions[k].pc = "reading"
    /\ sessions[k].idx < MaxVideoFrames
    /\ sessions' = [sessions EXCEPT ![k].idx = @ + 1, ![k].pc = "awaiting",
                                    ![k].thread = "queued"]
    /\ UNCHANGED <<trackerVars, trackerObs, zoneVars, edVars, edObs,
                   analyticsVars, pipelineVars, pipelineObs>>

\* cap.read() gives no frame: break, the final analytics, the events saved,
\* status complete, the complete event, finally cap.release()
JobEnd(k) ==
    /\ sessions[k].kind = "job" /\ sessions[k].pc = "reading"
    /\ sessions' = [sessions EXCEPT ![k].pc = "done", ![k].status = "complete",
                                    ![k].sent = @ \o <<"analytics", "complete">>,
                                    ![k].cap = "released"]
    /\ UNCHANGED <<trackerVars, trackerObs, zoneVars, edVars, edObs,
                   analyticsVars, pipelineVars, pipelineObs>>

\* the worker thread enters process_frame and reads the frame counter
ThreadEnter(k) ==
    /\ sessions[k].thread = "queued"
    /\ sessions' = [sessions EXCEPT ![k].thread = "running",
                                    ![k].local = frame_count]
    /\ UNCHANGED <<trackerVars, trackerObs, zoneVars, edVars, edObs,
                   analyticsVars, pipelineVars, pipelineObs>>

\* the worker thread stores the counter and runs the rest of process_frame
ThreadLeave(k) ==
    /\ sessions[k].thread = "running"
    /\ \E ds \in SkipFrames : Counted(ds, sessions[k].local + 1, now)
    /\ sessions' = [Disturb(sessions, k) EXCEPT
                       ![k].thread = IF ran'.raised = "" THEN "returned" ELSE "raised",
                       ![k].log = Append(@, [idx |-> sessions[k].idx,
                                             admitted |-> ran'.admitted,
                                             result |-> ran'.result])]

\* the generator is resumed with what the thread left: an exception goes to
\* except Exception, a result is sent as the frame event and its alerts
JobResume(k) ==
    /\ sessions[k].kind = "job" /\ sessions[k].pc = "awaiting"
    /\ sessions[k].thread \in {"raised", "returned"}
    /\ sessions' = [sessions EXCEPT ![k] =
                      IF @.thread = "raised"
                      THEN [OnException(@, ran.raised) EXCEPT !.thread = "none"]
                      ELSE [@ EXCEPT !.pc = "reading", !.thread = "none",
                                     !.sent = @ \o <<"frame">>
                                                \o [i \in DOMAIN @.log[Len(@.log)].result[1].events |-> "alert"]]]
    /\ UNCHANGED <<trackerVars, trackerObs, zoneVars, edVars, edObs,
                   analyticsVars, pipelineVars, pipelineObs>>

\* the generator waits: for update_job, for the worker thread, or in the
\* sleep that paces the frames
Suspended(s) ==
    \/ s.pc \in {"opening", "awaiting"}
    \/ s.pc = "reading" /\ s.idx > 0

\* the consumer of a job stream goes away
JobDisconnect(k) ==
    /\ sessions[k].kind = "job" /\ Suspended(sessions[k])
    /\ sessions' = [sessions EXCEPT ![k] = OnCancelled(@)]
    /\ UNCHANGED <<trackerVars, trackerObs, zoneVars, edVars, edObs,
                   analyticsVars, pipelineVars, pipelineObs>>

\* websocket_live up to its first receive: accept, reset
LiveStart ==
    /\ Len(sessions) < MaxSessions
    /\ ResetPipeline
    /\ sessions' = Append(Disturb(sessions, 0),
                          [Session("live") EXCEPT !.pc = "receiving"])

\* the text messages a peer sends to /ws/live: a JSON object whose "frame"
\* is the base64 of an encoded image; one whose "frame" is the base64 of
\* bytes that are no image; one whose "frame" is base64 with its padding
\* cut off; a text that is no JSON
LiveMessages == {"image", "not an image", "bad padding", "not json"}

\* json.loads, payload.get, base64.b64decode, np.frombuffer, cv2.imdecode on
\* a message: the exception raised on the way, or what imdecode returns
\* ("ndarray", or "None" for bytes it cannot decode)
Decoded(msg) ==
    CASE msg = "not json" -> [raised |-> "JSONDecodeError", frame |-> "None"]
      [] msg = "bad padding" -> [raised |-> "binascii.Error", frame |-> "None"]
      [] msg = "not an image" -> [raised |-> "", frame |-> "None"]
      [] msg = "image" -> [raised |-> "", frame |-> "ndarray"]

\* one turn of the loop of websocket_live: a message is received and
\* decoded; if frame is None the error reply is sent and the loop goes on,
\* otherwise the frame is processed on the event loop and the result sent.
\* Only WebSocketDisconnect is caught: whatever else the decoding or
\* process_frame raises ends the handler.
LiveFrame(k) ==
    /\ sessions[k].kind = "live" /\ sessions[k].pc = "receiving"
    /\ sessions[k].idx < MaxVideoFrames
    /\ \E msg \in LiveMessages :
          LET d == Decoded(msg)
          IN  IF d.raised # ""
              THEN /\ sessions' = [sessions EXCEPT ![k].idx = @ + 1,
                                                   ![k].got = Append(@, msg),
                                                   ![k].pc = "done",
                                                   ![k].failure = d.raised]
                   /\ UNCHANGED <<trackerVars, trackerObs, zoneVars, edVars,
                                  edObs, analyticsVars, pipelineVars, pipelineObs>>
              ELSE IF d.frame = "None"
              THEN /\ sessions' = [sessions EXCEPT ![k].idx = @ + 1,
                                                   ![k].got = Append(@, msg),
                                                   ![k].sent = Append(@, "error")]
                   /\ UNCHANGED <<trackerVars, trackerObs, zoneVars, edVars,
                                  edObs, analyticsVars, pipelineVars, pipelineObs>>
              ELSE /\ \E ds \in SkipFrames : ProcessFrame(ds, now)
                   /\ sessions' = [Disturb(sessions, k) EXCEPT ![k] =
                          IF ran'.raised # ""
                          THEN [@ EXCEPT !.idx = @ + 1, !.got = Append(@, msg),
                                         !.pc = "done", !.failure = ran'.raised]
                          ELSE [@ EXCEPT !.idx = @ + 1, !.got = Append(@, msg),
                                         !.sent = Append(@, "frame")]]

\* the peer closes the socket: WebSocketDisconnect
LiveDisconnect(k) ==
    /\ sessions[k].kind = "live" /\ sessions[k].pc = "receiving"
    /\ sessions' = [sessions EXCEPT ![k].pc = "done", ![k].consumer = "gone",
                                    ![k].cancelled = TRUE,
                                    ![k].cancelled_at = sessions[k].idx]
    /\ UNCHANGED <<trackerVars, trackerObs, zoneVars, edVars, edObs,
                   analyticsVars, pipelineVars, pipelineObs>>

NextSessions ==
    \/ JobStreamStart
    \/ LiveStart
    \/ \E k \in DOMAIN sessions :
          \/ JobOpen(k) \/ JobRead(k) \/ JobEnd(k) \/ JobResume(k)
          \/ JobDisconnect(k) \/ ThreadEnter(k) \/ ThreadLeave(k)
          \/ LiveFrame(k) \/ LiveDisconnect(k)

SpecSessions == InitSite /\ [][NextSessions]_vars

---------------------------------------------------------------------------
(* Claims about CentroidTracker.update                                     *)

\* a detection lies within the link distance of a centroid
Within(p, det) ==
    DistSq(p, Centroid(det.bbox)) <= MAX_TRACK_DISTANCE * MAX_TRACK_DISTANCE

\* the tracks the latest update registered
Fresh == {i \in 1..Len(objects) : objects[i].track_id \notin Ids(call.objects)}

\* row r of the latest update has its nearest detection within the link
\* distance, and no other track at most as far from that detection has it
\* as its nearest one too
Uncontested(r) ==
    LET D == DistMatrix(call.objects, call.dets)
    IN  /\ Len(call.dets) > 0
        /\ Within(call.objects[r].centroid, call.dets[ArgMin(D, r)])
        /\ \A q \in 1..Len(call.objects) :
              q # r => ~(ArgMin(D, q) = ArgMin(D, r) /\ RowMin(D, q) <= RowMin(D, r))

\* the track of row r came out of the latest update matched to detection c
MatchedTo(r, c) ==
    LET T == call.objects[r]
        det == call.dets[c]
    IN  \E i \in 1..Len(objects) :
            /\ objects[i].track_id = T.track_id
            /\ objects[i].bbox = det.bbox
            /\ objects[i].centroid = Centroid(det.bbox)
            /\ objects[i].trajectory = Truncate(Append(T.trajectory, Centroid(det.bbox)))
            /\ disappeared[T.track_id] = 0
            /\ missed[T.track_id] = 0

\* C1 as stated: a track with a detection within MAX_TRACK_DISTANCE of its
\* centroid is returned by the update under its id, and is not left unmatched
\* while a detection within its reach is registered under a new id.
C1_NearTrackKeepsItsDetection ==
    call.op = "update" =>
        \A r \in 1..Len(call.objects) :
            LET T == call.objects[r]
                near == {c \in 1..Len(call.dets) : Within(T.centroid, call.dets[c])}
            IN  near # {} =>
                    /\ T.track_id \in Ids(objects)
                    /\ ~(/\ missed[T.track_id] # 0
                         /\ \E c \in near : \E i \in Fresh :
                                objects[i].bbox = call.dets[c].bbox)

\* C1 amended: a track whose nearest detection is within MAX_TRACK_DISTANCE
\* and is not also the nearest detection of another track at most as far
\* from it is returned by the update under its id, updated from that
\* detection, with its trajectory continued and its counter at 0.
C1_UncontestedTrackKept ==
    call.op = "update" =>
        \A r \in 1..Len(call.objects) :
            Uncontested(r) =>
                MatchedTo(r, ArgMin(DistMatrix(call.objects, call.dets), r))

\* two tracks, each moved to a detection of its own
C1_Witness ==
    /\ call.op = "update"
    /\ Len(call.objects) >= 2
    /\ \A r \in 1..Len(call.objects) :
          /\ Uncontested(r)
          /\ RowMin(DistMatrix(call.objects, call.dets), r) > 0
          /\ call.objects[r].track_id \in Ids(objects)

\* C2: a detection farther than MAX_TRACK_DISTANCE from the centroid of
\* every existing track is matched to none of them; it is registered as a
\* new single-point track under an id this session has issued exactly once.
C2_FarDetectionGetsFreshId ==
    call.op = "update" =>
        \A c \in 1..Len(call.dets) :
            (\A r \in 1..Len(call.objects) :
                ~Within(call.objects[r].centroid, call.dets[c]))
            => /\ \A i \in 1..Len(objects) :
                    objects[i].bbox = call.dets[c].bbox => i \in Fresh
               /\ \E i \in Fresh :
                    /\ objects[i].bbox = call.dets[c].bbox
                    /\ objects[i].trajectory = <<Centroid(call.dets[c].bbox)>>
                    /\ objects[i].track_id \notin gone
                    /\ Cardinality({k \in 1..Len(issued) :
                                       issued[k] = objects[i].track_id}) = 1

\* a frame with one detection matched and another too far from every track
C2_Witness ==
    /\ call.op = "update"
    /\ Len(call.objects) >= 1
    /\ \E c \in 1..Len(call.dets) :
          \A r \in 1..Len(call.objects) :
              ~Within(call.objects[r].centroid, call.dets[c])
    /\ \E r \in 1..Len(call.objects) : missed[call.objects[r].track_id] = 0

\* C3: an id is returned by update exactly as long as its track has gone at
\* most max_disappeared consecutive updates without a detection (its count
\* stops at the update that removes it), and a removed id is never returned
\* again before the next reset.
C3_RemovedPastMaxDisappeared ==
    /\ \A tid \in DOMAIN missed :
          (tid \in Ids(objects)) <=> (missed[tid] <= max_disappeared)
    /\ gone \cap Ids(objects) = {}

\* a track removed by an update that carried detections, while a track
\* registered after it is returned
C3_Witness ==
    /\ call.op = "update"
    /\ Len(call.dets) > 0
    /\ \E tid \in gone :
          /\ tid \in Ids(call.objects)
          /\ missed[tid] = max_disappeared + 1
          /\ \E i \in 1..Len(objects) : objects[i].track_id > tid

\* C4: between two resets the ids issued are strictly increasing in order
\* of registration, and the list update returns is in ascending id order
\* (so the live tracks have pairwise distinct ids).
C4_IdsIncreaseInRegistrationOrder ==
    /\ \A i, j \in 1..Len(issued) : i < j => issued[i] < issued[j]
    /\ \A i, j \in 1..Len(objects) :
          i < j => objects[i].track_id < objects[j].track_id
    /\ \A i \in 1..Len(objects) : objects[i].track_id \in {issued[k] : k \in 1..Len(issued)}

\* two live tracks, one of them registered after another was removed
C4_Witness ==
    /\ Len(objects) = 2
    /\ \E tid \in gone : objects[2].track_id > tid /\ objects[1].track_id > tid
    /\ Len(issued) = 3

---------------------------------------------------------------------------
(* Claims about zone entries and exits                                     *)

\* track tid is among objs with its centroid inside the polygon of zone zid
Inside(objs, tid, zid) ==
    /\ tid \in Ids(objs)
    /\ Contains(zones[zid].polygon, objs[IndexOf(objs, tid)].centroid)

\* the events of one type the latest call returned for a track and a zone
ZoneEventsOf(type, tid, zid) ==
    {k \in 1..Len(out.events) :
        /\ out.events[k].event_type = type
        /\ out.events[k].track_id = tid
        /\ out.events[k].zone_id = zid}

\* C5: with the zones fixed, for every track and zone a processed frame
\* returns exactly one zone_entry when the centroid is inside the polygon
\* and was outside it, or the track was not there, in the frame before;
\* exactly one zone_exit when the centroid is outside and was inside; and
\* no zone event for the pair when containment is what it was.
C5_ZoneEventsOnChangeOnly ==
    out.op = "detect_events" =>
        \A tid \in 0..(next_id - 1) : \A zid \in DOMAIN zones :
            LET was == Inside(call.objects, tid, zid)
                is == Inside(objects, tid, zid)
            IN  /\ Cardinality(ZoneEventsOf("zone_entry", tid, zid))
                      = (IF is /\ ~was THEN 1 ELSE 0)
                /\ Cardinality(ZoneEventsOf("zone_exit", tid, zid))
                      = (IF tid \in Ids(objects) /\ was /\ ~is THEN 1 ELSE 0)

\* a track that moved out of one zone while staying in the other
C5_Witness ==
    /\ out.op = "detect_events"
    /\ call.n >= 3
    /\ \E tid \in Ids(call.objects) : \E zin, zout \in DOMAIN zones :
          /\ Inside(call.objects, tid, zin) /\ Inside(objects, tid, zin)
          /\ objects[IndexOf(objects, tid)].centroid
                # call.objects[IndexOf(call.objects, tid)].centroid
          /\ ZoneEventsOf("zone_entry", tid, zin) = {}
          /\ ZoneEventsOf("zone_exit", tid, zin) = {}
          /\ Inside(call.objects, tid, zout) /\ ~Inside(objects, tid, zout)
          /\ Cardinality(ZoneEventsOf("zone_exit", tid, zout)) = 1

---------------------------------------------------------------------------
(* Claims about the rules of detect_events                                 *)

\* the events of one type the latest call returned for a track
EventsOf(type, tid) ==
    {k \in 1..Len(out.events) :
        out.events[k].event_type = type /\ out.events[k].track_id = tid}

\* the near_miss events the latest call returned for a pair
NearMissesOf(pid, vid) ==
    {k \in 1..Len(out.events) :
        /\ out.events[k].event_type = "near_miss"
        /\ out.events[k].description[1] = pid
        /\ out.events[k].description[2] = vid}

\* the latest call was told the pair is in proximity
Reported(pid, vid) ==
    \E k \in 1..Len(out.pairs) : out.pairs[k][1] = pid /\ out.pairs[k][2] = vid

\* the latest call came less than NEAR_MISS_COOLDOWN seconds after the
\* last near_miss event of the pair
Cooling(pid, vid) ==
    /\ <<pid, vid>> \in DOMAIN out.before.last_near
    /\ out.t - out.before.last_near[<<pid, vid>>] < NEAR_MISS_COOLDOWN

\* C6: for every (person, vehicle) pair a call returns exactly one
\* near_miss event when the pair is reported in proximity and no near_miss
\* event of that pair lies less than NEAR_MISS_COOLDOWN seconds back, and
\* none otherwise; an event restarts the cooldown clock of its pair, and
\* what happens to another pair changes nothing for this one.
C6_NearMissOncePerCooldown ==
    out.op = "detect_events" =>
        \A i, j \in 1..Len(out.tracked) :
            LET pid == out.tracked[i].track_id
                vid == out.tracked[j].track_id
                key == <<pid, vid>>
                ev == NearMissesOf(pid, vid)
            IN  /\ Cardinality(ev)
                      = (IF Reported(pid, vid) /\ ~Cooling(pid, vid) THEN 1 ELSE 0)
                /\ \A k \in ev : out.events[k].severity = CRITICAL
                /\ ev # {} => near_miss_cooldown[key] = out.t
                /\ ev = {} /\ key \in DOMAIN out.before.last_near
                      => near_miss_cooldown[key] = out.before.last_near[key]

\* a pair alerted again once its cooldown is over, in a call that keeps the
\* other pair, reported as well, silent
C6_Witness ==
    /\ out.op = "detect_events"
    /\ \E p, q \in {0, 1} :
          /\ p # q
          /\ <<p, 2>> \in DOMAIN out.before.last_near
          /\ out.t - out.before.last_near[<<p, 2>>] = NEAR_MISS_COOLDOWN
          /\ Cardinality(NearMissesOf(p, 2)) = 1
          /\ Reported(q, 2) /\ Cooling(q, 2)
          /\ NearMissesOf(q, 2) = {}

\* C7: for every person a call returns exactly one fallen_worker event when
\* it is the FALLEN_FRAME_COUNT-th call in a row with the fallen flag set,
\* and none otherwise (none for a shorter run, none while the flag stays
\* set after the event); a call with the flag cleared resets counter and
\* latch, so that a new run is alerted once more.
C7_FallenAlertOncePerFall ==
    out.op = "detect_events" =>
        \A i \in 1..Len(out.tracked) :
            LET obj == out.tracked[i]
                tid == obj.track_id
                ev == EventsOf("fallen_worker", tid)
            IN  IF obj.class_name = PERSON
                THEN /\ Cardinality(ev)
                          = (IF hist.fallen_run[tid] = FALLEN_FRAME_COUNT THEN 1 ELSE 0)
                     /\ \A k \in ev : out.events[k].severity = CRITICAL
                     /\ ~obj.is_fallen =>
                            fallen_counts[tid] = 0 /\ fallen_alerted[tid] = FALSE
                ELSE ev = {}

\* the second fall of a person is alerted
C7_Witness ==
    /\ out.op = "detect_events"
    /\ \E tid \in DOMAIN out.before.fallen_alerts :
          /\ out.before.fallen_alerts[tid] = 1
          /\ out.before.fallen_run[tid] = FALLEN_FRAME_COUNT - 1
          /\ Cardinality(EventsOf("fallen_worker", tid)) = 1

\* C8: for every person a call returns a warning ppe_violation exactly when
\* the status of the call before was hardhat_on and the status now is
\* hardhat_off, an info ppe_restored exactly when it was hardhat_off and is
\* hardhat_on, and no PPE event otherwise, a first sighting counting as
\* unknown; the stored status is the current one after every call.  Nine
\* calls with the hardhat on and a tenth with it off give one ppe_violation,
\* in the tenth.
C8_PpeTransitions ==
    out.op = "detect_events" =>
        \A i \in 1..Len(out.tracked) :
            LET obj == out.tracked[i]
                tid == obj.track_id
                last == Get(out.before.ppe, tid, UNKNOWN)
                cur == obj.ppe_status
                v == EventsOf("ppe_violation", tid)
                r == EventsOf("ppe_restored", tid)
            IN  IF obj.class_name = PERSON
                THEN /\ Cardinality(v)
                          = (IF last = HARDHAT_ON /\ cur = HARDHAT_OFF THEN 1 ELSE 0)
                     /\ \A k \in v : out.events[k].severity = WARNING
                     /\ Cardinality(r)
                          = (IF last = HARDHAT_OFF /\ cur = HARDHAT_ON THEN 1 ELSE 0)
                     /\ \A k \in r : out.events[k].severity = INFO
                     /\ prev_ppe[tid] = cur
                ELSE v = {} /\ r = {} /\ tid \notin DOMAIN prev_ppe

\* nine calls with the hardhat on, then one with it off
C8_Witness ==
    /\ out.op = "detect_events"
    /\ \E i \in 1..Len(out.tracked) :
          /\ Get(out.before.on_run, out.tracked[i].track_id, 0) = 9
          /\ out.tracked[i].ppe_status = HARDHAT_OFF
          /\ Cardinality(EventsOf("ppe_violation", out.tracked[i].track_id)) = 1

\* C9: a call returns no loitering event for a track less than
\* LOITER_COOLDOWN seconds after the last loitering event of that track,
\* whatever the track did in between.
C9_LoiterCooldownAlways ==
    out.op = "detect_events" =>
        \A tid \in DOMAIN out.before.last_loiter :
            EventsOf("loitering", tid) # {} =>
                out.t - out.before.last_loiter[tid] >= LOITER_COOLDOWN

\* the object was in a zone with speed below 3.0 in the latest call
Still(obj) ==
    /\ obj.in_zones # {}
    /\ obj.velocity[1] * obj.velocity[1] + obj.velocity[2] * obj.velocity[2] < 9

\* C10: a call returns a loitering event for a track only if the track is
\* a person in a zone with speed below 3.0 in this call and in every call
\* since one made at least LOITER_SECONDS earlier; a call that finds the
\* person in no zone or at speed 3.0 or more leaves no loitering state
\* for it, and the state of a stationary person holds the time of the
\* first call of its present stationary run.
C10_LoiterOnlyWhenContinuouslyStill ==
    out.op = "detect_events" =>
        \A i \in 1..Len(out.tracked) :
            LET obj == out.tracked[i]
                tid == obj.track_id
                ev == EventsOf("loitering", tid)
            IN  IF obj.class_name = PERSON
                THEN /\ ev # {} =>
                          /\ Still(obj)
                          /\ tid \in DOMAIN out.before.still_since
                          /\ out.t - out.before.still_since[tid] >= LOITER_SECONDS
                     /\ ~Still(obj) => tid \notin DOMAIN loiter_state
                     /\ Still(obj) =>
                          /\ tid \in DOMAIN loiter_state
                          /\ loiter_state[tid][1] = hist.still_since[tid]
                ELSE ev = {} /\ tid \notin DOMAIN loiter_state

\* a loitering event on a timer that had been restarted
C10_Witness ==
    /\ out.op = "detect_events"
    /\ \E tid \in DOMAIN out.before.still_since :
          /\ out.before.still_since[tid] > Epoch + 12
          /\ out.t - out.before.still_since[tid] = LOITER_SECONDS
          /\ Cardinality(EventsOf("loitering", tid)) = 1

---------------------------------------------------------------------------
(* Claims about AnalyticsEngine.ingest_frame                               *)

\* what the observed ingest_frame call was given, counted from its arguments
PeopleGiven ==
    {i \in DOMAIN ran.result[1].tracked_objects :
        ran.result[1].tracked_objects[i].class_name = PERSON}

HattedGiven ==
    {i \in PeopleGiven : ran.result[1].tracked_objects[i].ppe_status = HARDHAT_ON}

EventsGiven(type) ==
    Cardinality({i \in DOMAIN ran.result[1].events :
                    ran.result[1].events[i].event_type = type})

\* C11: the risk score that ingest_frame returns lies in [0,100] whatever
\* the tracked objects and events are, and it is exactly 100 when no person
\* is compliant, the frame has at least 4 zone_entry events, at least 2
\* near_miss events and at least 7 persons.
C11_RiskInRangeAndFullAtWorst ==
    ran.op = "ingest_frame" =>
        LET risk == ran.result[1].risk_score
        IN  /\ risk[2] > 0
            /\ AtMost(<<0, 1>>, risk)
            /\ AtMost(risk, <<100, 1>>)
            /\ (/\ HattedGiven = {}
                /\ Cardinality(PeopleGiven) >= 7
                /\ EventsGiven("zone_entry") >= 4
                /\ EventsGiven("near_miss") >= 2)
               => Same(risk, <<100, 1>>)

C11_Witness ==
    /\ ran.op = "ingest_frame"
    /\ HattedGiven = {}
    /\ Cardinality(PeopleGiven) >= 7
    /\ EventsGiven("zone_entry") >= 4
    /\ EventsGiven("near_miss") >= 2
    /\ Same(ran.result[1].risk_score, <<100, 1>>)
    /\ Len(risk_history) > 1

\* C12: the compliance rate that ingest_frame returns is the number of
\* person tracks with the hardhat on over the number of person tracks, so
\* that persons of unknown status or without a hardhat count against it and
\* tracks of other classes do not count at all; it is exactly 1 when the
\* frame has no person track, and it always lies in [0,1].
C12_ComplianceIsHardhatShare ==
    ran.op = "ingest_frame" =>
        LET c == ran.result[1].compliance_rate
        IN  /\ c[2] > 0
            /\ PeopleGiven = {} => c = <<1, 1>>
            /\ PeopleGiven # {} =>
                  Same(c, <<Cardinality(HattedGiven), Cardinality(PeopleGiven)>>)
            /\ AtMost(<<0, 1>>, c)
            /\ AtMost(c, <<1, 1>>)

\* a frame with a hatted person, a bare one, one of unknown status and a car
C12_Witness ==
    /\ ran.op = "ingest_frame"
    /\ Cardinality(HattedGiven) = 1
    /\ Cardinality(PeopleGiven) = 3
    /\ \E i \in PeopleGiven : ran.result[1].tracked_objects[i].ppe_status = UNKNOWN
    /\ \E i \in PeopleGiven : ran.result[1].tracked_objects[i].ppe_status = HARDHAT_OFF
    /\ Len(ran.result[1].tracked_objects) = 4
    /\ Same(ran.result[1].compliance_rate, <<1, 3>>)

\* the formula of the risk, in halves of a point, over the number of persons
FormulaOfRisk ==
    LET p == Cardinality(PeopleGiven)
        d == IF p = 0 THEN 1 ELSE p
        bare == IF p = 0 THEN 0 ELSE p - Cardinality(HattedGiven)
        z == EventsGiven("zone_entry")
        n == EventsGiven("near_miss")
    IN  <<80 * bare
            + d * ((IF 16 * z < 50 THEN 16 * z ELSE 50)
                   + (IF 25 * n < 50 THEN 25 * n ELSE 50)
                   + (IF 3 * p < 20 THEN 3 * p ELSE 20)),
          2 * d>>

\* C13: the risk score of a frame is (1 - compliance) * 40 + min(8 * its
\* zone_entry events, 25) + min(12.5 * its near_miss events, 25) + min(1.5 *
\* its person tracks, 10); it is a function of the tracked objects and the
\* events of this call alone, whatever the engine has ingested before.
C13_RiskIsFormulaOfThisFrame ==
    ran.op = "ingest_frame" => Same(ran.result[1].risk_score, FormulaOfRisk)

\* an engine whose log holds zone entries and near misses of earlier frames
\* is given a frame with one zone entry and no near miss
C13_Witness ==
    /\ ran.op = "ingest_frame"
    /\ EventsGiven("zone_entry") = 1
    /\ EventsGiven("near_miss") = 0
    /\ CountType(analytics_events, "zone_entry") >= 4
    /\ CountType(analytics_events, "near_miss") >= 2
    /\ Len(risk_history) = MaxWarm + 1

---------------------------------------------------------------------------
(* Claims about Pipeline.process_frame and its consumers                   *)

\* the frames the skip policy is to admit: the first, and every Nth after it
Due(count, skip) == (count - 1) % skip = 0

\* what identifies an event
Brief(ev) == <<ev.event_type, ev.frame_number, ev.track_id, ev.zone_id>>

\* what a result shows: its frame, its tracks and their zones, its events,
\* its scores
Shown(r) ==
    <<r.frame_number,
      [i \in DOMAIN r.tracked_objects |->
          <<r.tracked_objects[i].track_id, r.tracked_objects[i].centroid,
            r.tracked_objects[i].in_zones>>],
      [i \in DOMAIN r.events |-> Brief(r.events[i])],
      r.risk_score, r.compliance_rate>>

\* the turns of the frame loop of session s that ran the components
AdmittedTurns(s) == {i \in DOMAIN s.log : s.log[i].admitted}

\* C14: for every skip interval N >= 1, process_frame runs the components on
\* exactly the first frame after a reset and every Nth frame after it, and
\* on every other frame it returns, unchanged, the result of the most recent
\* frame it ran.
C14_OneFrameInEveryN ==
    \A k \in DOMAIN sessions : \A i \in DOMAIN sessions[k].log :
        LET s == sessions[k]
            before == {j \in AdmittedTurns(s) : j < i}
        IN  /\ s.log[i].admitted <=> Due(s.log[i].idx, SKIP_FRAMES)
            /\ ~s.log[i].admitted =>
                  /\ before # {}
                  /\ Shown(s.log[i].result)
                        = Shown(s.log[CHOOSE j \in before : \A h \in before : h <= j].result)

C16_StagesOncePerAdmittedFrame ==
    (ran.op = "process_frame" /\ Due(frame_count, SKIP_FRAMES)) =>
        /\ ran.calls = Stages
        /\ call.op = "update" /\ call.dets = ran.result[1].detections
        /\ out.op = "detect_events"
        /\ Len(out.tracked) = Len(objects)
        /\ \A i \in DOMAIN out.tracked :
              /\ out.tracked[i].track_id = objects[i].track_id
              /\ out.tracked[i].in_zones = InZones(zones, objects[i])
        /\ \A i \in DOMAIN out.entries :
              out.entries[i][2] \subseteq
                  out.tracked[IndexOf(out.tracked, out.entries[i][1])].in_zones
        /\ \A i \in DOMAIN out.exits :
              out.exits[i][2] \cap
                  out.tracked[IndexOf(out.tracked, out.exits[i][1])].in_zones = {}
        /\ Shown(ran.result[1])[2]
              = Shown([ran.result[1] EXCEPT !.tracked_objects = out.tracked])[2]
        /\ [i \in DOMAIN ran.result[1].events |-> Brief(ran.result[1].events[i])]
              = [i \in DOMAIN out.events |-> Brief(out.events[i])]
        /\ Same(ran.result[1].risk_score,
                ComputeRisk(out.tracked, out.events, ComplianceRate(out.tracked)))

\* C17: after Pipeline.reset nothing of the session before is left: no
\* track, no disappearance counter, next id 0, no previous occupancy, the
\* five stores of the event detector empty, the analytics log, series and
\* buckets empty, frame counter 0 and no cached result; and a video
\* processed after a reset gives, frame by frame, the tracks, ids, events
\* and scores that the same frames gave on the pipeline as constructed.
C17_ResetLeavesNothing ==
    /\ ran.op = "reset" =>
          /\ objects = <<>> /\ disappeared = <<>> /\ next_id = 0
          /\ prev_occupancy = <<>>
          /\ prev_ppe = <<>> /\ loiter_state = <<>> /\ near_miss_cooldown = <<>>
          /\ fallen_counts = <<>> /\ fallen_alerted = <<>>
          /\ analytics_events = <<>> /\ risk_history = <<>>
          /\ compliance_history = <<>> /\ alert_buckets = <<>>
          /\ frame_count = 0 /\ last_result = <<>>
    /\ Len(sessions) = 2 =>
          \A m \in DOMAIN sessions[1].log \cap DOMAIN sessions[2].log :
              (\A i \in 1..m :
                  sessions[1].log[i].result.detections
                      = sessions[2].log[i].result.detections)
              => Shown(sessions[1].log[m].result) = Shown(sessions[2].log[m].result)

\* the second video starts after a first one that left tracks, occupancy
\* and events behind, and its frames have been given the ids of the first
C17_Witness ==
    /\ Len(sessions) = 2
    /\ Len(sessions[1].log) >= 3 /\ Len(sessions[2].log) >= 3
    /\ Len(sessions[1].log[3].result.tracked_objects) = 2
    /\ Len(sessions[1].log[3].result.events) > 0
    /\ \A i \in 1..3 :
          sessions[1].log[i].result.detections = sessions[2].log[i].result.detections
    /\ ran.op = "process_frame"
    /\ ran.admitted
    /\ frame_count = 3

\* C18: while several sessions run, the tracker, occupancy, rule and
\* analytics state one session works on is neither advanced nor reset by
\* another, and no two process_frame calls run at once on the same state.
C18_SessionsKeepToTheirOwnState ==
    /\ \A k \in DOMAIN sessions : ~sessions[k].disturbed
    /\ Cardinality({k \in DOMAIN sessions : sessions[k].thread = "running"}) <= 1

\* C19: a job whose video cannot be opened, or whose frame loop meets an
\* error it cannot recover from, ends with a failed or error status in its
\* job row; it is not left as processing.
C19_FailureLeavesFailedStatus ==
    \A k \in DOMAIN sessions :
        (/\ sessions[k].kind = "job"
         /\ sessions[k].pc = "done"
         /\ sessions[k].failure # "")
        => sessions[k].status \in {"failed", "error"}

\* C20: when the consumer of a job stream goes away, the frame loop reads
\* no further frame, the capture is released, no error event is sent and
\* the job status becomes neither error nor failed; and the capture is
\* released on every way out of the loop.
C20_CancellationIsNotAnError ==
    \A k \in DOMAIN sessions :
        sessions[k].kind = "job" =>
            /\ sessions[k].cancelled =>
                  /\ sessions[k].pc = "done"
                  /\ sessions[k].idx = sessions[k].cancelled_at
                  /\ sessions[k].cap # "open"
                  /\ \A i \in DOMAIN sessions[k].sent : sessions[k].sent[i] # "error"
                  /\ sessions[k].status \notin {"failed", "error"}
            /\ sessions[k].pc = "done" => sessions[k].cap # "open"

\* the consumer went away while the first frame was with the worker thread,
\* which has since finished the call
C20_Witness ==
    \E k \in DOMAIN sessions :
        /\ sessions[k].kind = "job"
        /\ sessions[k].cancelled
        /\ sessions[k].cancelled_at = 1
        /\ sessions[k].cap = "released"
        /\ sessions[k].thread = "raised"

\* the pipeline and its four components, as a reader of their fields sees
\* them
pipelineState ==
    <<next_id, objects, disappeared, zones, prev_occupancy, edVars,
      analyticsVars, pipelineVars>>

\* the latest step was a turn of the live session k on a message that does
\* not decode to an image
Undecodable(k) ==
    /\ sessions[k].kind = "live"
    /\ Len(sessions'[k].got) = Len(sessions[k].got) + 1
    /\ Decoded(sessions'[k].got[Len(sessions'[k].got)]).frame = "None"

\* C21: a turn of a live session on a message that cannot be decoded sends
\* one error reply for that message, leaves frame counter, tracks, rule
\* state and analytics as they were, and leaves the session receiving.
C21_UndecodableFrameRejectedAlone ==
    [][\A k \in DOMAIN sessions :
          Undecodable(k) =>
              /\ sessions'[k].sent = Append(sessions[k].sent, "error")
              /\ sessions'[k].pc = "receiving"
              /\ pipelineState' = pipelineState]_vars

\* the latest call was process_frame on a frame in which detect finds
\* nothing, as it does in every frame when the model is not available
EmptyFrame == ran.op = "process_frame" /\ ran.frame = <<>>

\* C22: process_frame on a frame with no detection returns a result and
\* does not raise; when the frame is run, the update registers no track,
\* every track it had either is evicted or survives with its
\* disappearance counter one higher, and check_zones, detect_proximity,
\* detect_events and ingest_frame run on the surviving tracks.
C22_EmptyFrameIsANormalFrame ==
    EmptyFrame =>
        /\ ran.raised = ""
        /\ ran.result # <<>>
        /\ ran.admitted =>
              /\ ran.calls = Stages
              /\ call.op = "update" /\ call.dets = <<>>
              /\ Ids(objects) \subseteq Ids(call.objects)
              /\ \A i \in DOMAIN call.objects :
                    LET tid == call.objects[i].track_id
                    IN  IF tid \in Ids(objects)
                        THEN missed[tid] >= 1 /\ disappeared[tid] = missed[tid]
                        ELSE tid \in gone
              /\ out.op = "detect_events"
              /\ Ids(out.tracked) = Ids(objects)
              /\ Ids(ran.result[1].tracked_objects) = Ids(objects)
              /\ Same(ran.result[1].risk_score,
                      ComputeRisk(out.tracked, out.events,
                                  ComplianceRate(out.tracked)))

---------------------------------------------------------------------------
(* main.py: one job stream, yield by yield.  event_generator is an async   *)
(* generator: at a yield it hands one message to its consumer and is        *)
(* suspended until the consumer asks for the next one.  process_frame is    *)
(* taken from its skip check on and the frames are one second apart.       *)

MaxJobFrames == 3   \* frames in the video of the job

\* the consumer has asked for the next message: the generator runs
Asked(s) == s.taken = Len(s.sent)

Message(s, kind, n) == [idx |-> s.idx, kind |-> kind, n |-> n]

\* the alerts of the current frame that have been yielded
Alerted(s) ==
    Len(SelectSeq(s.sent, LAMBDA m : m.idx = s.idx /\ m.kind = "alert"))

\* the generator from its start to its first yield or suspension: reset,
\* status processing, the video opened or the error event
StreamOpen ==
    /\ sessions = <<>>
    /\ ResetPipeline
    /\ \E opened \in BOOLEAN : \E n \in 1..MaxJobFrames :
          sessions' =
              <<IF opened
                THEN [Session("job") EXCEPT !.pc = "reading", !.cap = "open",
                                            !.status = "processing",
                                            !.frames = n]
                ELSE [Session("job") EXCEPT
                         !.pc = "closing", !.status = "processing",
                         !.failure = "Cannot open video",
                         !.sent = <<Message(Session("job"), "error", 0)>>]>>

\* cap.read() gives a frame, process_frame is awaited, the frame event is
\* yielded
StreamFrame(k) ==
    /\ sessions[k].pc = "reading" /\ Asked(sessions[k])
    /\ sessions[k].idx < sessions[k].frames
    /\ \E ds \in SkipFrames :
          /\ FromSkipCheck(ds, frame_count + 1, now + 1)
          /\ sessions' = [sessions EXCEPT ![k] =
                LET s == [@ EXCEPT !.idx = @ + 1]
                IN  [s EXCEPT !.pc = "alerts",
                              !.log = Append(@, [idx |-> s.idx,
                                                 admitted |-> ran'.admitted,
                                                 result |-> ran'.result[1]]),
                              !.sent = Append(@, Message(s, "frame", 0))]]

\* for ev in result.events: the next alert event is yielded
StreamAlert(k) ==
    LET s == sessions[k]
    IN  /\ s.pc = "alerts" /\ Asked(s)
        /\ Alerted(s) < Len(s.log[Len(s.log)].result.events)
        /\ sessions' = [sessions EXCEPT ![k].sent =
                            Append(@, Message(s, "alert", Alerted(s) + 1))]
        /\ UNCHANGED <<trackerVars, trackerObs, zoneVars, edVars, edObs,
                       analyticsVars, pipelineVars, pipelineObs>>

\* the alerts of the frame are out: asyncio.sleep(frame_interval)
StreamPace(k) ==
    LET s == sessions[k]
    IN  /\ s.pc = "alerts" /\ Asked(s)
        /\ Alerted(s) = Len(s.log[Len(s.log)].result.events)
        /\ sessions' = [sessions EXCEPT ![k].pc = "reading"]
        /\ UNCHANGED <<trackerVars, trackerObs, zoneVars, edVars, edObs,
                       analyticsVars, pipelineVars, pipelineObs>>

\* cap.read() gives no frame: break, the final analytics event is yielded
StreamEnd(k) ==
    LET s == sessions[k]
    IN  /\ s.pc = "reading" /\ Asked(s)
        /\ s.idx = s.frames
        /\ sessions' = [sessions EXCEPT ![k].pc = "saving",
                                        ![k].sent = Append(@, Message(s, "analytics", 0))]
        /\ UNCHANGED <<trackerVars, trackerObs, zoneVars, edVars, edObs,
                       analyticsVars, pipelineVars, pipelineObs>>

\* the analytics and the events are saved, status complete, the complete
\* event is yielded
StreamComplete(k) ==
    LET s == sessions[k]
    IN  /\ s.pc = "saving" /\ Asked(s)
        /\ sessions' = [sessions EXCEPT ![k].pc = "closing",
                                        ![k].status = "complete",
                                        ![k].sent = Append(@, Message(s, "complete", 0))]
        /\ UNCHANGED <<trackerVars, trackerObs, zoneVars, edVars, edObs,
                       analyticsVars, pipelineVars, pipelineObs>>

\* the generator returns: finally cap.release()
StreamClose(k) ==
    LET s == sessions[k]
    IN  /\ s.pc = "closing" /\ Asked(s)
        /\ sessions' = [sessions EXCEPT ![k].pc = "done",
                                        ![k].cap = IF @ = "open" THEN "released" ELSE @]
        /\ UNCHANGED <<trackerVars, trackerObs, zoneVars, edVars, edObs,
                       analyticsVars, pipelineVars, pipelineObs>>

\* the consumer takes the message it was handed and asks for the next
ConsumerTake(k) ==
    /\ Running(sessions[k]) /\ ~Asked(sessions[k])
    /\ sessions' = [sessions EXCEPT ![k].taken = @ + 1]
    /\ UNCHANGED <<trackerVars, trackerObs, zoneVars, edVars, edObs,
                   analyticsVars, pipelineVars, pipelineObs>>

\* the consumer goes away: the generator is closed where it is suspended
ConsumerGone(k) ==
    /\ Running(sessions[k])
    /\ sessions' = [sessions EXCEPT ![k] = OnCancelled(@)]
    /\ UNCHANGED <<trackerVars, trackerObs, zoneVars, edVars, edObs,
                   analyticsVars, pipelineVars, pipelineObs>>

\* the steps of the generator, and those of its consumer
GeneratorStep ==
    \/ StreamOpen
    \/ \E k \in DOMAIN sessions :
          \/ StreamFrame(k) \/ StreamAlert(k) \/ StreamPace(k)
          \/ StreamEnd(k) \/ StreamComplete(k) \/ StreamClose(k)

ConsumerStep ==
    \E k \in DOMAIN sessions : ConsumerTake(k) \/ ConsumerGone(k)

NextStream == GeneratorStep \/ ConsumerStep
SpecStream == InitSkip /\ [][NextStream]_vars

\* the event loop runs the generator whenever it can run; nothing is
\* assumed of the pace of the consumer
SpecStreamAtAnyPace == SpecStream /\ WF_vars(GeneratorStep)

FramesWaitForConsumer ==
    [][\A k \in DOMAIN sessions :
          (k \in DOMAIN sessions' /\ sessions'[k].idx = sessions[k].idx + 1)
              => sessions[k].taken = Len(sessions[k].sent)]_vars

---------------------------------------------------------------------------
(* The tracker on a long walk: one person, seen frame after frame for more *)
(* frames than a trajectory holds.  The walker who appears at x = 20 stands *)
(* still, the one who appears at x = 200 moves 2 pixels to the right every  *)
(* frame, the one who appears at x = 400 paces between 400 and 404.  The    *)
(* detector may lose the walker in every MissEvery-th frame.               *)

MaxWalk == 62     \* frames of a walk
MissEvery == 20   \* the frames in which the walker may be missed

WalkStarts == {20, 200, 400}

\* where the walker last seen at x is in frame n
WalkAt(x, n) ==
    IF x < 200 THEN 20
    ELSE IF x < 400 THEN 200 + 2 * (n - 1)
    ELSE 400 + 2 * (n % 3)

WalkFrames(n) ==
    IF objects = <<>>
    THEN {<<Detection(PERSON, UprightBox(x), HARDHAT_ON)>> : x \in WalkStarts}
    ELSE {<<Detection(PERSON, UprightBox(WalkAt(objects[1].centroid[1], n)),
                      HARDHAT_ON)>>}
         \cup (IF n % MissEvery = 0 THEN {<<>>} ELSE {})

WalkUpdate ==
    /\ call.n < MaxWalk
    /\ \E ds \in WalkFrames(call.n + 1) : UpdateCall(ds, call.n + 1)
    /\ UNCHANGED <<zoneVars, edVars, edObs, restVars>>

NextWalk == WalkUpdate
SpecWalk == Init /\ [][NextWalk]_vars

\* the list with its first n elements dropped
Tail_n(list, n) == SubSeq(list, n + 1, Len(list))

\* C24: the trajectory of every track is never empty, never longer than
\* TRAJECTORY_LENGTH, and ends with the current centroid of the track; an
\* update that matches the track appends the new centroid and drops the
\* oldest one only when the list would otherwise be too long, and an
\* update that does not match it leaves the trajectory as it is.
C24_TrajectoryIsRecentCentroids ==
    /\ [](\A i \in DOMAIN objects :
            /\ Len(objects[i].trajectory) \in 1..TRAJECTORY_LENGTH
            /\ objects[i].trajectory[Len(objects[i].trajectory)]
                  = objects[i].centroid)
    /\ [][call'.op = "update" =>
            \A i \in DOMAIN objects : \A j \in DOMAIN objects' :
                objects[i].track_id = objects'[j].track_id =>
                    LET grown == Append(objects[i].trajectory, objects'[j].centroid)
                    IN  IF missed'[objects[i].track_id] = 0
                        THEN objects'[j].trajectory
                                = Tail_n(grown, IF Len(grown) > TRAJECTORY_LENGTH
                                                THEN 1 ELSE 0)
                        ELSE objects'[j].trajectory = objects[i].trajectory]_vars

\* a walker who has moved for more frames than a trajectory holds, and was
\* missed on the way: the place where the walk began is no longer in the
\* trajectory, which is full and in the order of the walk
C24_Witness ==
    /\ call.op = "update" /\ call.n > TRAJECTORY_LENGTH + 1
    /\ Len(objects) = 1
    /\ disappeared[objects[1].track_id] = 0
    /\ Len(objects[1].trajectory) = TRAJECTORY_LENGTH
    /\ objects[1].trajectory[1][1] > 200
    /\ \A k \in 1..(TRAJECTORY_LENGTH - 1) :
          objects[1].trajectory[k][1] < objects[1].trajectory[k + 1][1]
    /\ \E k \in 1..(TRAJECTORY_LENGTH - 1) :
          objects[1].trajectory[k + 1][1] - objects[1].trajectory[k][1] = 4

---------------------------------------------------------------------------
(* Tracker.update and ZoneEngine.check_zones as two calls, on the frames   *)
(* of SpecZones: check_zones is handed the list update returned, whose      *)
(* elements are the tracker's own objects.                                 *)

CarryUpdate ==
    /\ call.n < ZoneFrames
    /\ \E ds \in FramesAt(call.n) : UpdateCall(ds, call.n + 1)
    /\ UNCHANGED <<zoneVars, edVars, edObs, restVars>>

CarryCheck ==
    LET cz == CheckZones(zones, prev_occupancy, objects)
    IN  /\ objects' = cz.objects
        /\ prev_occupancy' = cz.current
        /\ zones' = zones
        /\ UNCHANGED <<next_id, disappeared, trackerObs, edVars, edObs, restVars>>

NextCarry == CarryUpdate \/ CarryCheck
SpecCarry == InitSite /\ [][NextCarry]_vars

\* C25: the in_zones of every track is what the most recent check_zones
\* pass found for it (nothing, for a track registered since); right after a
\* pass it is the set of zones that contain the centroid of the track; and
\* Tracker.update leaves the in_zones of every track it keeps as it was,
\* whether it matched the track or not.
C25_InZonesIsTheLatestPass ==
    /\ [](\A i \in DOMAIN objects :
            objects[i].in_zones = Get(prev_occupancy, objects[i].track_id, {}))
    /\ [][IF call' # call
          THEN \A i \in DOMAIN objects : \A j \in DOMAIN objects' :
                  objects[i].track_id = objects'[j].track_id
                      => objects'[j].in_zones = objects[i].in_zones
          ELSE /\ DOMAIN prev_occupancy' = Ids(objects')
               /\ \A j \in DOMAIN objects' :
                     objects'[j].in_zones = InZones(zones, objects'[j])]_vars

\* update has just moved one track out of the zones the last pass found for
\* it and has missed another that was inside a zone: both still carry the
\* zones of that pass
C25_Witness ==
    /\ call.op = "update"
    /\ \E i \in DOMAIN objects : \E j \in DOMAIN objects :
          /\ disappeared[objects[i].track_id] = 0
          /\ objects[i].in_zones # {}
          /\ objects[i].in_zones # InZones(zones, objects[i])
          /\ disappeared[objects[j].track_id] > 0
          /\ objects[j].in_zones # {}

---------------------------------------------------------------------------
(* The zones of the site edited while frames are processed: POST and       *)
(* DELETE /api/zones between calls of check_zones and detect_events, and   *)
(* detect_events called with entries and exits of its caller's choosing.   *)
(* All calls land in the same second.                                      *)

MaxEditRun == 2   \* calls in a row a hardhat is seen on

\* the zones that are added and removed: the danger zone of the site and a
\* safe one, which contains x = 190
ZonePool ==
    {SiteZones["Z1"],
     ZoneConfig("Z3", "yard", "safe",
                <<<<180, 0>>, <<260, 0>>, <<260, 100>>, <<180, 100>>>>)}

\* ZoneEngine.add_zone
AddZone ==
    /\ \E z \in ZonePool : zones' = Put(zones, z.id, z)
    /\ UNCHANGED <<prev_occupancy, trackerVars, trackerObs, edVars, edObs,
                   restVars>>

\* ZoneEngine.remove_zone of a zone that is configured
RemoveZone ==
    /\ \E zid \in DOMAIN zones \cap {z.id : z \in ZonePool} :
          zones' = Del(zones, zid)
    /\ UNCHANGED <<prev_occupancy, trackerVars, trackerObs, edVars, edObs,
                   restVars>>

\* a person who moves between x = 10 and 190 and takes the hardhat on and
\* off, and one who stays at x = 60
EditScenes ==
    {<<Seen(0, PERSON, x, a, <<0, 0>>, FALSE),
       Seen(1, PERSON, 60, UNKNOWN, <<0, 0>>, FALSE)>> :
        x \in {10, 190}, a \in {HARDHAT_ON, HARDHAT_OFF}}

\* zone_entries and zone_exits as a caller may pass them; track 7 is not
\* among the tracked objects and zone Z9 is never configured
GivenItems ==
    {<<<<<<0, {"Z1", "Z3"}>>, <<1, {"Z2"}>>, <<7, {"Z9"}>>>>, <<<<1, {"Z1"}>>>>>>,
     <<<<>>, <<<<0, {"Z2", "Z9"}>>>>>>,
     <<<<<<0, {"Z2"}>>>>, <<>>>>}

\* the hardhat runs of the history stay short
ShortRuns == \A tid \in DOMAIN hist'.on_run : hist'.on_run[tid] <= MaxEditRun

EditFrame ==
    /\ \E tracked \in EditScenes : SceneCall(tracked, now)
    /\ ShortRuns

GivenCall ==
    /\ \E tracked \in EditScenes : \E given \in GivenItems :
          DetectEventsCall(tracked, given[1], given[2], <<>>, 1, now)
    /\ ShortRuns
    /\ UNCHANGED <<zoneVars, trackerVars, trackerObs, restVars>>

NextEdit == AddZone \/ RemoveZone \/ EditFrame \/ GivenCall
SpecEdit == InitSite /\ [][NextEdit]_vars

\* the <<track, zone>> pairs of a dict of zone sets, as a set
PairsOf(items) ==
    UNION {{<<items[i][1], zid>> : zid \in items[i][2]} : i \in DOMAIN items}

\* the events of one type in the latest call of detect_events
EventsOfType(type) == SelectSeq(out.events, LAMBDA ev : ev.event_type = type)

\* C26: in every call of detect_events, a zone_entry event is critical when
\* the zone entered is of type danger in the lookup of the call and warning
\* otherwise, a zone_exit event is info, and the zone_entry (zone_exit)
\* events are one for each pair of a track and a zone in the entries
\* (exits) given to the call.
C26_ZoneEventSeverities ==
    out.op = "detect_events" =>
        LET ins == EventsOfType("zone_entry")
            outs == EventsOfType("zone_exit")
        IN  /\ \A i \in DOMAIN ins :
                  ins[i].severity =
                      IF /\ ins[i].zone_id \in DOMAIN out.zones
                         /\ out.zones[ins[i].zone_id].zone_type = "danger"
                      THEN CRITICAL ELSE WARNING
            /\ \A i \in DOMAIN outs : outs[i].severity = INFO
            /\ {<<ins[i].track_id, ins[i].zone_id>> : i \in DOMAIN ins}
                  = PairsOf(out.entries)
            /\ Len(ins) = Cardinality(PairsOf(out.entries))
            /\ {<<outs[i].track_id, outs[i].zone_id>> : i \in DOMAIN outs}
                  = PairsOf(out.exits)
            /\ Len(outs) = Cardinality(PairsOf(out.exits))

\* one call with entries into the danger zone, the restricted zone, the
\* safe zone and a zone that is not configured, and with an exit
C26_Witness ==
    /\ out.op = "detect_events"
    /\ \A type \in {"danger", "restricted", "safe"} :
          \E zid \in DOMAIN out.zones :
              /\ out.zones[zid].zone_type = type
              /\ zid \in {p[2] : p \in PairsOf(out.entries)}
    /\ \E p \in PairsOf(out.entries) : p[2] \notin DOMAIN out.zones
    /\ PairsOf(out.exits) # {}
    /\ Len(EventsOfType("zone_entry")) >= 4

\* the events of a list that are not zone events, each as its type, its
\* severity and its track
OtherEvents(events) ==
    LET rest == SelectSeq(events,
                          LAMBDA ev : ev.event_type \notin {"zone_entry", "zone_exit"})
    IN  [i \in DOMAIN rest |->
            <<rest[i].event_type, rest[i].severity, rest[i].track_id>>]

\* C27: in every call of detect_events, each entry and exit that names a
\* zone missing from the lookup of the call still has its zone event, whose
\* description shows the raw id in place of the name; and the events of the
\* other rules and the stores the call leaves behind are those of the same
\* call made without entries and exits.
C27_UnknownZoneStillReported ==
    /\ [](out.op = "detect_events" =>
            /\ \A p \in PairsOf(out.entries) :
                  p[2] \notin DOMAIN out.zones =>
                      \E i \in DOMAIN out.events :
                          /\ out.events[i].event_type = "zone_entry"
                          /\ out.events[i].track_id = p[1]
                          /\ out.events[i].zone_id = p[2]
                          /\ out.events[i].description[3] = p[2]
            /\ \A p \in PairsOf(out.exits) :
                  p[2] \notin DOMAIN out.zones =>
                      \E i \in DOMAIN out.events :
                          /\ out.events[i].event_type = "zone_exit"
                          /\ out.events[i].track_id = p[1]
                          /\ out.events[i].zone_id = p[2]
                          /\ out.events[i].description[2] = p[2])
    /\ [][(out' # out /\ out'.op = "detect_events") =>
            LET plain == DetectEvents(DetectorNow, out'.tracked, <<>>, <<>>,
                                      out'.pairs, out'.zones, 1, out'.t)
            IN  /\ OtherEvents(out'.events) = OtherEvents(plain.events)
                /\ prev_ppe' = plain.prev_ppe
                /\ loiter_state' = plain.loiter_state
                /\ near_miss_cooldown' = plain.near_miss_cooldown
                /\ fallen_counts' = plain.fallen_counts
                /\ fallen_alerted' = plain.fallen_alerted]_vars

\* the danger zone was removed while both persons were inside it: the next
\* frame reports their exits from a zone the lookup no longer has, and the
\* hardhat taken off in the same frame
C27_Witness ==
    /\ out.op = "detect_events"
    /\ "Z1" \notin DOMAIN out.zones
    /\ out.entries = <<>>
    /\ PairsOf(out.exits) = {<<0, "Z1">>, <<1, "Z1">>}
    /\ \E i \in DOMAIN out.events :
          /\ out.events[i].event_type = "zone_exit"
          /\ out.events[i].description[2] = "Z1"
    /\ \E i \in DOMAIN out.events : out.events[i].event_type = "ppe_violation"

---------------------------------------------------------------------------
(* The analytics engine over a long session: more frames than the view of  *)
(* get_analytics shows, one second apart.  Frame n shows nobody, a person   *)
(* with a hardhat or a person without one, as n % 3 is 0, 1 or 2; every     *)
(* AlertEvery-th frame may instead show a person without a hardhat and      *)
(* bring one or two zone entries, a near miss and a zone exit.  reset may   *)
(* be called in the first seconds.                                         *)

MaxSeries == 202    \* frames ingested between two resets
AlertEvery == 50    \* the frames that may bring events
ResetWithin == 2    \* seconds after construction in which reset is called

SeriesFrames(n) ==
    {<<Crowd(IF n % 3 = 1 THEN 1 ELSE 0, IF n % 3 = 2 THEN 1 ELSE 0, 0, 0),
       Alerts(0, 0, 0)>>}
    \cup (IF n % AlertEvery = 1
          THEN {<<Crowd(0, 1, 0, 0), Alerts(1 + ((n \div AlertEvery) % 2), 1, 1)>>}
          ELSE {})

SeriesIngest ==
    /\ Len(risk_history) < MaxSeries
    /\ \E f \in SeriesFrames(Len(risk_history) + 1) :
          IngestCall("ingest_frame", f[1], f[2])

SeriesView ==
    /\ ran' = Ran("get_analytics", <<>>, "", FALSE, <<>>,
                   <<GetAnalytics(AnalyticsNow)>>)
    /\ UNCHANGED <<trackerVars, trackerObs, zoneVars, edVars, edObs,
                   analyticsVars, pipelineVars, sessionVars>>

SeriesReset ==
    /\ risk_history # <<>>
    /\ now <= Epoch + ResetWithin
    /\ analytics_events' = ResetAnalytics(now).events
    /\ risk_history' = ResetAnalytics(now).risk_history
    /\ compliance_history' = ResetAnalytics(now).compliance_history
    /\ alert_buckets' = ResetAnalytics(now).alert_buckets
    /\ start_time' = ResetAnalytics(now).start_time
    /\ ran' = Ran("reset", <<>>, "", FALSE, <<>>, <<>>)
    /\ UNCHANGED <<trackerVars, trackerObs, zoneVars, edVars, edObs,
                   pipelineVars, sessionVars>>

NextSeries == SeriesIngest \/ SeriesView \/ SeriesReset
SpecSeries == Init /\ [][NextSeries]_vars

\* two events with the same fields
SameEvent(a, b) ==
    /\ Brief(a) = Brief(b)
    /\ a.severity = b.severity
    /\ a.description = b.description

\* list is head followed by tail, event by event
HeadAndTail(list, head, tail) ==
    /\ Len(list) = Len(head) + Len(tail)
    /\ \A i \in DOMAIN head : SameEvent(list[i], head[i])
    /\ \A i \in DOMAIN tail : SameEvent(list[Len(head) + i], tail[i])

\* C28: a step that is not a reset leaves the event log as it was, event
\* by event, and puts behind it the events of the frame if the step is an
\* ingest_frame call and nothing otherwise; get_analytics in particular
\* leaves the log as it was.
C28_LogOnlyGrowsByAppending ==
    [][ran'.op # "reset" =>
          HeadAndTail(analytics_events', analytics_events,
                      IF ran'.op = "ingest_frame" /\ now' # now
                      THEN ran'.result[1].events ELSE <<>>)]_vars

\* get_analytics has just been called on a log that two frames have added
\* events to since the last reset
C28_Witness ==
    /\ ran.op = "get_analytics"
    /\ ran.result[1].total_events = Len(analytics_events)
    /\ Len(analytics_events) = 7
    /\ start_time > Epoch
    /\ Len(risk_history) > AlertEvery

\* the sum of the numerators of a list of fractions of one denominator
RECURSIVE Numerators(_, _, _)
Numerators(vals, lo, hi) ==
    IF lo > hi THEN 0
    ELSE IF lo = hi THEN vals[lo][1]
    ELSE Numerators(vals, lo, (lo + hi) \div 2)
            + Numerators(vals, ((lo + hi) \div 2) + 1, hi)

\* what get_analytics is to show of a series of n points: the latest
\* min(n, SERIES_SHOWN) of them, in order
ShownOf(view, history) ==
    LET n == Len(history)
        m == Least(n, SERIES_SHOWN)
    IN  /\ Len(view) = m
        /\ \A i \in 1..m : view[i] = history[n - m + i]

\* C29: every ingest_frame call puts one point behind the risk series and
\* one behind the compliance series and leaves the points before as they
\* were; get_analytics shows of each series its latest min(n, 200) points
\* in order, while the average risk, the peak risk and the average
\* compliance it reports are those of all n points.
C29_OnePointPerFrameLatestShown ==
    /\ [][(ran'.op = "ingest_frame" /\ now' # now) =>
            /\ Len(risk_history') = Len(risk_history) + 1
            /\ SubSeq(risk_history', 1, Len(risk_history)) = risk_history
            /\ Len(compliance_history') = Len(compliance_history) + 1
            /\ SubSeq(compliance_history', 1, Len(compliance_history))
                  = compliance_history]_vars
    /\ [](ran.op = "get_analytics" =>
            LET view == ran.result[1]
                n == Len(risk_history)
                risks == Values(risk_history)
                rates == Values(compliance_history)
            IN  /\ Len(compliance_history) = n
                /\ ShownOf(view.risk_over_time, risk_history)
                /\ ShownOf(view.compliance_over_time, compliance_history)
                /\ n > 0 =>
                      /\ \A i \in 1..n : risks[i][2] = 2 /\ rates[i][2] = 1
                      /\ Same(view.avg_risk_score,
                              <<Numerators(risks, 1, n), 2 * n>>)
                      /\ Same(view.compliance_rate,
                              <<Numerators(rates, 1, n), n>>)
                      /\ \A i \in 1..n : AtMost(risks[i], view.peak_risk_score)
                      /\ \E i \in 1..n : Same(risks[i], view.peak_risk_score))

\* get_analytics after more frames than it shows: the first frame, which
\* had the highest risk of all, is no longer among the points shown but is
\* the peak reported, and the average counts it
C29_Witness ==
    /\ ran.op = "get_analytics"
    /\ Len(risk_history) > SERIES_SHOWN
    /\ Len(ran.result[1].risk_over_time) = SERIES_SHOWN
    /\ Same(ran.result[1].peak_risk_score, risk_history[1].value)
    /\ \A i \in 2..Len(risk_history) :
          Less(risk_history[i].value, risk_history[1].value)
    /\ ran.result[1].risk_over_time[1].timestamp > risk_history[1].timestamp

---------------------------------------------------------------------------
(* ZoneEngine.detect_proximity on lists of up to three tracks of any class, *)
(* on the line y = 50: the first at x = 300, the second 100, 98 or 90       *)
(* pixels to one side of it, the third 100, 98 or 90 pixels to the other    *)
(* or next to the second.                                                  *)

Classes == {PERSON, BICYCLE, CAR, TRUCK}

ProximityScenes ==
    {<<>>}
    \cup {<<Seen(0, a, 300, UNKNOWN, <<0, 0>>, FALSE)>> : a \in Classes}
    \cup {<<Seen(0, a, 300, UNKNOWN, <<0, 0>>, FALSE),
            Seen(1, b, x, UNKNOWN, <<0, 0>>, FALSE),
            Seen(2, c, y, UNKNOWN, <<0, 0>>, FALSE)>> :
              a \in Classes, b \in Classes, c \in Classes,
              x \in {200, 202, 210}, y \in {400, 398, 390, 212}}

\* detect_proximity reads the tracks and writes nothing
ProximityCall ==
    /\ \E tracked \in ProximityScenes :
          out' = [out EXCEPT !.op = "detect_proximity", !.tracked = tracked,
                             !.pairs = DetectProximity(tracked)]
    /\ UNCHANGED <<trackerVars, trackerObs, zoneVars, edVars, now, hist,
                   restVars>>

NextProximity == ProximityCall
SpecProximity == InitSite /\ [][NextProximity]_vars

\* the positions in a list of the tracks of some classes
Of(tracked, classes) == {i \in DOMAIN tracked : tracked[i].class_name \in classes}

\* C30: the list detect_proximity returns holds, once each and with their
\* distance, the pairs of a person and a car, truck or bicycle whose
\* centroids are less than PROXIMITY_THRESHOLD apart, and nothing else; it
\* is empty when the tracks hold no person or no vehicle.
C30_ProximityPairs ==
    out.op = "detect_proximity" =>
        LET T == out.tracked
            P == out.pairs
            persons == Of(T, {PERSON})
            vehicles == Of(T, {CAR, TRUCK, BICYCLE})
            gap(i, j) == DistSq(T[i].centroid, T[j].centroid)
            near == {<<i, j>> \in persons \X vehicles :
                        gap(i, j) < PROXIMITY_THRESHOLD * PROXIMITY_THRESHOLD}
        IN  /\ \A k \in DOMAIN P :
                  \E ij \in near :
                      P[k] = <<T[ij[1]].track_id, T[ij[2]].track_id,
                               gap(ij[1], ij[2])>>
            /\ \A ij \in near :
                  Cardinality({k \in DOMAIN P :
                                  /\ P[k][1] = T[ij[1]].track_id
                                  /\ P[k][2] = T[ij[2]].track_id}) = 1
            /\ (persons = {} \/ vehicles = {}) => P = <<>>

\* a truck and two persons: the truck is 88 pixels from one person and
\* exactly PROXIMITY_THRESHOLD from the other, and the persons are next to
\* each other; the one pair returned is that of the nearer person
C30_Witness ==
    /\ out.op = "detect_proximity"
    /\ Len(out.tracked) = 3
    /\ out.tracked[1].class_name = TRUCK
    /\ out.tracked[2].class_name = PERSON /\ out.tracked[2].centroid[1] = 200
    /\ out.tracked[3].class_name = PERSON /\ out.tracked[3].centroid[1] = 212
    /\ out.pairs = <<<<2, 0, 88 * 88>>>>

---------------------------------------------------------------------------
(* tracker.py, update lines 59-78: the order of the matching loop and the  *)
(* single detection each track is offered                                  *)

\* the other tracks of the latest update whose nearest detection is the
\* nearest detection of row r too
Rivals(D, r) == {q \in DOMAIN D : q # r /\ ArgMin(D, q) = ArgMin(D, r)}

\* the track of row r came out of the latest update without a detection
Unmatched(r) == missed[call.objects[r].track_id] # 0

\* C31: in one update each track is offered only its single nearest
\* detection: a track that is matched is matched to that detection; a track
\* farther than MAX_TRACK_DISTANCE from it is not matched; of the tracks
\* sharing a nearest detection the one at the smaller distance is considered
\* first and gets it when within reach, and every farther one is left
\* unmatched in this frame; a track within reach of a nearest detection that
\* no track at most as far shares is matched to it.
C31_NearestDetectionInDistanceOrder ==
    (call.op = "update" /\ Len(call.dets) > 0 /\ Len(call.objects) > 0) =>
        LET D == DistMatrix(call.objects, call.dets)
        IN  \A r \in 1..Len(call.objects) :
                LET c == ArgMin(D, r)
                IN  /\ ~Unmatched(r) => MatchedTo(r, c)
                    /\ TooFar(D[r][c]) => Unmatched(r)
                    /\ (\E q \in Rivals(D, r) :
                            RowMin(D, q) < RowMin(D, r) /\ ~TooFar(RowMin(D, q)))
                       => Unmatched(r)
                    /\ (/\ ~TooFar(D[r][c])
                        /\ \A q \in Rivals(D, r) : RowMin(D, q) > RowMin(D, r))
                       => MatchedTo(r, c)

\* two tracks with the same nearest detection at different distances, both
\* within reach of it: the nearer one took it, the farther one went without
\* while another detection of the frame was registered
C31_Witness ==
    /\ call.op = "update"
    /\ Len(call.objects) = 2
    /\ Len(call.dets) = 2
    /\ LET D == DistMatrix(call.objects, call.dets)
       IN  \E r, q \in 1..2 :
              /\ q \in Rivals(D, r)
              /\ RowMin(D, q) < RowMin(D, r)
              /\ ~TooFar(RowMin(D, r))
              /\ MatchedTo(q, ArgMin(D, q))
              /\ Unmatched(r)
              /\ Fresh # {}

---------------------------------------------------------------------------
(* tracker.py, update lines 46-95: where the detections of a frame go      *)

\* the returned tracks that received a detection in the latest update: the
\* tracks _update_object was called for and the tracks _register made
Receivers ==
    {i \in 1..Len(objects) :
        \/ i \in Fresh
        \/ missed[objects[i].track_id] = 0}

\* C32: in one update with a non-empty detection list the detections and
\* the returned tracks that received one correspond one to one, each track
\* holding its detection as its current bounding box: every detection is
\* the box of exactly one such track, matched or newly registered, no
\* track holds more than one, and the disappearance counter of each of
\* these tracks is 0.
C32_EachDetectionToOneTrack ==
    (call.op = "update" /\ Len(call.dets) > 0) =>
        /\ Cardinality(Receivers) = Len(call.dets)
        /\ \A c \in 1..Len(call.dets) :
              Cardinality({i \in Receivers : objects[i].bbox = call.dets[c].bbox})
                = Cardinality({d \in 1..Len(call.dets) :
                                  call.dets[d].bbox = call.dets[c].bbox})
        /\ \A i \in Receivers :
              /\ \E c \in 1..Len(call.dets) :
                    /\ objects[i].bbox = call.dets[c].bbox
                    /\ objects[i].centroid = Centroid(call.dets[c].bbox)
              /\ disappeared[objects[i].track_id] = 0
        /\ \A i, j \in 1..Len(objects) :
              objects[i].track_id = objects[j].track_id => i = j

\* a frame of two detections met by two tracks: one track moved to one
\* detection, the other track went without, the other detection was
\* registered
C32_Witness ==
    /\ call.op = "update"
    /\ Len(call.dets) = 2
    /\ Len(call.objects) = 2
    /\ Cardinality(Fresh) = 1
    /\ \E r \in 1..2 :
          /\ ~Unmatched(r)
          /\ call.objects[r].bbox # objects[IndexOf(objects, call.objects[r].track_id)].bbox
    /\ \E r \in 1..2 : Unmatched(r)

---------------------------------------------------------------------------
(* tracker.py, update lines 59-78 and _update_object 135-147: frames whose *)
(* detections are of several classes                                       *)

ClassXs == {20, 60}
ClassDets == {Detection(cls, UprightBox(x), UNKNOWN) : cls \in {PERSON, CAR}, x \in ClassXs}

\* a short session of frames of persons and cars
ClassUpdate ==
    /\ call.n < MaxFrames
    /\ \E ds \in Frames(ClassDets, MaxDets) : UpdateCall(ds, call.n + 1)
    /\ UNCHANGED <<zoneVars, edVars, edObs, restVars>>

NextClasses == ClassUpdate \/ TrackerReset
SpecClasses == Init /\ [][NextClasses]_vars

\* C33 as stated: a track returned by an update that it entered has the
\* class it had before the update; no track is matched to a detection of
\* another class.
C33_ClassNeverChanges ==
    call.op = "update" =>
        \A r \in 1..Len(call.objects) :
            \A i \in 1..Len(objects) :
                objects[i].track_id = call.objects[r].track_id
                    => objects[i].class_name = call.objects[r].class_name

\* what update does: a person track 40 px from a car detection, its
\* nearest, comes back as a car under the same id
C33_PersonTrackBecomesCar ==
    /\ call.op = "update"
    /\ \E r \in 1..Len(call.objects) :
          /\ call.objects[r].class_name = PERSON
          /\ ~Unmatched(r)
          /\ objects[IndexOf(objects, call.objects[r].track_id)].class_name = CAR
          /\ objects[IndexOf(objects, call.objects[r].track_id)].centroid
                 # call.objects[r].centroid

---------------------------------------------------------------------------
(* pipeline.py, process_frame lines 49-128 on a scene that empties: the    *)
(* first frames show people in and out of the zones, then the detector     *)
(* finds nothing until the tracker has dropped every track.  The frames    *)
(* enter process_frame at its skip check.                                  *)

MaxAbandon == 52    \* frames of the session
AbandonAfter == 4   \* the last frame that may show anybody

AbandonFrames(n) ==
    IF n = 1 THEN Frames(TrackerDets, MaxDets) \ {<<>>}
    ELSE IF n <= AbandonAfter
    THEN {<<>>, <<Detection(PERSON, UprightBox(190), HARDHAT_ON)>>}
    ELSE {<<>>}

AbandonFrame ==
    /\ frame_count < MaxAbandon
    /\ \E ds \in AbandonFrames(frame_count + 1) :
          FromSkipCheck(ds, frame_count + 1, now + 1)
    /\ UNCHANGED sessionVars

NextAbandon == AbandonFrame
SpecAbandon == InitSite /\ [][NextAbandon]_vars

\* the events of a type logged so far for a zone
ZoneEvents(type, zid) ==
    Cardinality({k \in 1..Len(analytics_events) :
                    /\ analytics_events[k].event_type = type
                    /\ analytics_events[k].zone_id = zid})

\* the tracks the tracker returns whose in_zones holds the zone
TracksIn(zid) == {i \in 1..Len(objects) : zid \in objects[i].in_zones}

\* C34 as stated: after every processed frame and for every zone, the
\* zone_entry events emitted so far minus the zone_exit events emitted so
\* far are as many as the returned tracks whose in_zones holds the zone.
C34_EntriesMinusExitsIsOccupancy ==
    (ran.op = "process_frame" /\ ran.admitted) =>
        \A zid \in DOMAIN zones :
            ZoneEvents("zone_entry", zid) - ZoneEvents("zone_exit", zid)
                = Cardinality(TracksIn(zid))

\* what the code keeps: the balance is right as long as no track has been
\* dropped, and a dropped track leaves its entries without exits
C34_BalancedUntilEviction ==
    (ran.op = "process_frame" /\ ran.admitted /\ gone = {}) =>
        \A zid \in DOMAIN zones :
            ZoneEvents("zone_entry", zid) - ZoneEvents("zone_exit", zid)
                = Cardinality(TracksIn(zid))

\* a track dropped inside a zone: the zone has an entry, no exit and nobody
\* inside
C34_EvictedInsideWithoutExit ==
    /\ ran.op = "process_frame"
    /\ ran.admitted
    /\ gone # {}
    /\ \E zid \in DOMAIN zones :
          /\ ZoneEvents("zone_entry", zid) = 1
          /\ ZoneEvents("zone_exit", zid) = 0
          /\ TracksIn(zid) = {}

---------------------------------------------------------------------------
(* pipeline.py, process_video and process_frame lines 49-128 on a video of *)
(* one person who is seen lying, seen standing or not seen at all.  The    *)
(* frames enter process_frame at its skip check; the session's log keeps   *)
(* the result of every turn.                                               *)

MaxStale == 13   \* frames read from the video

StaleFrames ==
    {<<>>,
     <<Detection(PERSON, FallenBox(190), HARDHAT_ON)>>,
     <<Detection(PERSON, UprightBox(190), HARDHAT_ON)>>}

\* process_video up to its loop, the capture opened
StaleStart ==
    /\ sessions = <<>>
    /\ ResetPipeline
    /\ sessions' = <<[Session("video") EXCEPT !.pc = "loop", !.cap = "open"]>>

\* a frame is read and goes through the loop body
StaleFrame ==
    /\ IF sessions = <<>> THEN FALSE ELSE Last.pc = "loop"
    /\ Last.idx < MaxStale
    /\ \E ds \in StaleFrames :
          /\ FromSkipCheck(ds, frame_count + 1, now + 1)
          /\ sessions' = [sessions EXCEPT ![Len(sessions)] = Turn(@, ran')]

NextStale == StaleStart \/ StaleFrame \/ VideoEnd
SpecStale == InitSite /\ [][NextStale]_vars

\* the results of the processed frames of the session, oldest first
Processed ==
    IF sessions = <<>> THEN <<>>
    ELSE LET admitted == SelectSeq(Last.log, LAMBDA e : e.admitted)
         IN  [k \in 1..Len(admitted) |-> admitted[k].result]

\* in the k-th processed frame a fallen-shaped person detection of the frame
\* was matched to track tid: the track is returned with the box of that
\* detection, and its trajectory is not the one the frame before returned
\* (a track that is merely retained comes back as it was)
SeenLying(results, k, tid) ==
    \E i \in 1..Len(results[k].tracked_objects) :
        LET obj == results[k].tracked_objects[i]
        IN  /\ obj.track_id = tid
            /\ \E c \in 1..Len(results[k].detections) :
                  /\ results[k].detections[c].class_name = PERSON
                  /\ IsFallen(results[k].detections[c])
                  /\ results[k].detections[c].bbox = obj.bbox
            /\ IF k = 1 THEN TRUE
               ELSE \A j \in 1..Len(results[k - 1].tracked_objects) :
                        results[k - 1].tracked_objects[j].track_id = tid
                            => results[k - 1].tracked_objects[j].trajectory
                                   # obj.trajectory

\* the tracks the k-th processed frame emitted a fallen_worker event for
FallenAlerts(results, k) ==
    {results[k].events[n].track_id :
        n \in {m \in 1..Len(results[k].events) :
                  results[k].events[m].event_type = "fallen_worker"}}

\* C35 as stated: a fallen_worker event is emitted for a track only if in
\* each of the last FALLEN_FRAME_COUNT processed frames a fallen-shaped
\* person detection of the frame was matched to the track; a processed frame
\* in which the track is merely retained does not count.
C35_FallenOnlyFromFreshDetections ==
    LET results == Processed
    IN  \A k \in 1..Len(results) :
            \A tid \in FallenAlerts(results, k) :
                /\ k >= FALLEN_FRAME_COUNT
                /\ \A j \in (k - FALLEN_FRAME_COUNT + 1)..k : SeenLying(results, j, tid)

\* what the code counts: the processed frames in a row that return the
\* track with its fallen flag set, whether or not it received a detection
C35_FallenFromFlagHowever ==
    LET results == Processed
    IN  \A k \in 1..Len(results) :
            \A tid \in FallenAlerts(results, k) :
                /\ k >= FALLEN_FRAME_COUNT
                /\ \A j \in (k - FALLEN_FRAME_COUNT + 1)..k :
                      \E i \in 1..Len(results[j].tracked_objects) :
                          /\ results[j].tracked_objects[i].track_id = tid
                          /\ results[j].tracked_objects[i].is_fallen

\* a person seen lying in one processed frame and not seen in the next four
\* is reported as a fallen worker
C35_AlertFromOneSighting ==
    LET results == Processed
    IN  /\ Len(results) = FALLEN_FRAME_COUNT
        /\ FallenAlerts(results, FALLEN_FRAME_COUNT) # {}
        /\ \A j \in 2..FALLEN_FRAME_COUNT : results[j].detections = <<>>

---------------------------------------------------------------------------
(* pipeline.py, process_frame lines 49-54: what a skipped call leaves      *)

\* the step is a turn of the frame loop of the running video
LoopTurn ==
    /\ sessions # <<>>
    /\ Len(sessions') = Len(sessions)
    /\ sessions'[Len(sessions)].idx = sessions[Len(sessions)].idx + 1

---------------------------------------------------------------------------
(* main.py, the zone endpoints (lines 257-273) and Pipeline.reset on a     *)
(* pipeline that processes frames in between.  The frames enter            *)
(* process_frame at its skip check and land in the same second.            *)

MaxConfigFrames == 4   \* frames between two resets

\* the zones a client posts: a pit, the pit redrawn as a restricted strip,
\* and a crane area
ConfigPool ==
    {ZoneConfig("Z1", "pit", "danger",
                <<<<0, 0>>, <<100, 0>>, <<100, 100>>, <<0, 100>>>>),
     ZoneConfig("Z1", "strip", "restricted",
                <<<<0, 0>>, <<40, 0>>, <<40, 100>>, <<0, 100>>>>),
     ZoneConfig("Z2", "crane", "restricted",
                <<<<40, 0>>, <<120, 0>>, <<120, 100>>, <<40, 100>>>>)}

\* the ids a client asks to delete; Z9 is never posted
ConfigIds == {"Z1", "Z2", "Z9"}

\* POST /api/zones: add_zone
CreateZone ==
    /\ \E zone \in ConfigPool :
          /\ zones' = Put(zones, zone.id, zone)
          /\ ran' = Ran("add_zone", <<zone>>, "", FALSE, <<>>, <<>>)
    /\ UNCHANGED <<prev_occupancy, trackerVars, trackerObs, edVars, edObs,
                   analyticsVars, pipelineVars, sessionVars>>

\* DELETE /api/zones/{zone_id}: remove_zone, and 404 when it returns False
DeleteZone ==
    /\ \E zone_id \in ConfigIds :
          IF zone_id \in DOMAIN zones
          THEN /\ zones' = Del(zones, zone_id)
               /\ ran' = Ran("remove_zone", <<zone_id>>, "", FALSE, <<>>, <<TRUE>>)
          ELSE /\ zones' = zones
               /\ ran' = Ran("remove_zone", <<zone_id>>, "HTTPException", FALSE,
                             <<>>, <<FALSE>>)
    /\ UNCHANGED <<prev_occupancy, trackerVars, trackerObs, edVars, edObs,
                   analyticsVars, pipelineVars, sessionVars>>

\* Pipeline.reset, as a job stream calls it before its first frame
ConfigReset ==
    /\ ResetPipeline
    /\ UNCHANGED sessionVars

ConfigFrame ==
    /\ frame_count < MaxConfigFrames
    /\ \E ds \in {<<>>, <<Detection(PERSON, UprightBox(20), UNKNOWN)>>} :
          FromSkipCheck(ds, frame_count + 1, now)
    /\ UNCHANGED sessionVars

NextConfig == CreateZone \/ DeleteZone \/ ConfigReset \/ ConfigFrame
SpecConfig == Init /\ [][NextConfig]_vars

\* C37: Pipeline.reset (and with it ZoneEngine.reset) leaves the configured
\* zones, their ids, types and polygons, as they were, and so does a frame;
\* add_zone inserts the zone or replaces the whole zone of the same id and
\* touches no other; remove_zone returns true exactly when the id was
\* configured, then removes that zone alone, and otherwise changes nothing.
C37_OnlyAddAndRemoveChangeZones ==
    [][/\ ran'.op \in {"reset", "process_frame"} => zones' = zones
       /\ ran'.op = "add_zone" =>
             LET zone == ran'.frame[1]
             IN  /\ DOMAIN zones' = (DOMAIN zones) \cup {zone.id}
                 /\ zones'[zone.id] = zone
                 /\ \A x \in (DOMAIN zones) \ {zone.id} : zones'[x] = zones[x]
       /\ ran'.op = "remove_zone" =>
             LET zone_id == ran'.frame[1]
             IN  /\ ran'.result[1] = (zone_id \in DOMAIN zones)
                 /\ IF zone_id \in DOMAIN zones
                    THEN /\ DOMAIN zones' = (DOMAIN zones) \ {zone_id}
                         /\ \A x \in DOMAIN zones' : zones'[x] = zones[x]
                    ELSE zones' = zones]_vars

\* a reset of a pipeline that held a track inside the two zones configured:
\* the occupancy is gone, the zones are there
C37_Witness ==
    /\ ran.op = "reset"
    /\ call.op = "reset"
    /\ DOMAIN zones = {"Z1", "Z2"}
    /\ zones["Z1"].zone_type = "restricted"
    /\ prev_occupancy = <<>>
    /\ \E i \in 1..Len(call.objects) : call.objects[i].in_zones # {}

---------------------------------------------------------------------------
(* main.py, a job stream (lines 136-218) whose process_frame runs in a     *)
(* worker thread (asyncio.to_thread, lines 160-162) while the event loop   *)
(* serves POST and DELETE /api/zones (lines 257-273).  No lock guards the  *)
(* zone maps, so the thread may be preempted between any two of its steps. *)
(* process_frame is entered at its skip check and taken stage by stage:    *)
(* steps 1 and 2, the containment pass of check_zones from its first to    *)
(* its last read of _polygons, steps 4 to 6 with the lookup                *)
(* self.zone_engine.zones, and the annotation with the lookup of           *)
(* _annotate_frame.                                                        *)

MaxRaceFrames == 2   \* frames read from the video of the job

Job == sessions[1]

\* event_generator up to its loop: pipeline.reset(), the capture opened
RaceOpen ==
    /\ sessions = <<>>
    /\ ResetPipeline
    /\ sessions' = <<[Session("job") EXCEPT !.pc = "reading", !.cap = "open",
                                            !.status = "processing"]>>

\* cap.read() gives a frame: it is handed to a worker thread and awaited
RaceRead ==
    /\ sessions # <<>>
    /\ Job.pc = "reading"
    /\ Job.idx < MaxRaceFrames
    /\ sessions' = [sessions EXCEPT ![1].pc = "awaiting", ![1].idx = @ + 1,
                                    ![1].thread = "queued", ![1].seen = <<>>]
    /\ UNCHANGED <<trackerVars, trackerObs, zoneVars, edVars, edObs,
                   analyticsVars, pipelineVars, pipelineObs>>

\* the thread counts the frame and finds it skipped: lines 50-54
RaceSkip ==
    /\ sessions # <<>>
    /\ Job.thread = "queued"
    /\ Skipped(frame_count + 1, SKIP_FRAMES, last_result)
    /\ frame_count' = frame_count + 1
    /\ ran' = Ran("process_frame", <<>>, "", FALSE, <<>>, last_result)
    /\ sessions' = [sessions EXCEPT ![1].thread = "returned"]
    /\ UNCHANGED <<trackerVars, trackerObs, zoneVars, edVars, edObs,
                   analyticsVars, last_result, SKIP_FRAMES>>

\* the thread counts the frame and runs steps 1 and 2: lines 56-64
RaceTrack ==
    /\ sessions # <<>>
    /\ Job.thread = "queued"
    /\ ~Skipped(frame_count + 1, SKIP_FRAMES, last_result)
    /\ frame_count' = frame_count + 1
    /\ \E ds \in {<<Detection(PERSON, UprightBox(20), UNKNOWN)>>} :
          UpdateCall(ds, call.n + 1)
    /\ sessions' = [sessions EXCEPT ![1].thread = "tracked"]
    /\ UNCHANGED <<zoneVars, edVars, edObs, analyticsVars, last_result,
                   SKIP_FRAMES, pipelineObs>>

\* check_zones reaches for obj in tracked_objects and its first
\* self._polygons.items()
RaceCheckBegin ==
    /\ sessions # <<>>
    /\ Job.thread = "tracked"
    /\ sessions' = [sessions EXCEPT ![1].thread = "iterating",
                                    ![1].seen = <<zones>>]
    /\ UNCHANGED <<trackerVars, trackerObs, zoneVars, edVars, edObs,
                   analyticsVars, pipelineVars, pipelineObs>>

\* the containment pass is through.  A dict whose size has changed under
\* the loop makes the next step of the iteration raise RuntimeError; when
\* the size is the same the pass has read the polygons of before the
\* change or those of after it.
RaceCheckEnd ==
    /\ sessions # <<>>
    /\ Job.thread = "iterating"
    /\ Cardinality(DOMAIN zones) = Cardinality(DOMAIN Job.seen[1])
    /\ \E zs \in {Job.seen[1], zones} :
          LET cz == CheckZones(zs, prev_occupancy, objects)
          IN  /\ objects' = cz.objects
              /\ prev_occupancy' = cz.current
              /\ out' = [out EXCEPT !.op = "check_zones", !.tracked = cz.objects,
                                    !.entries = cz.entries, !.exits = cz.exits]
              /\ sessions' = [sessions EXCEPT ![1].thread = "checked",
                                              ![1].seen = <<zs>>]
    /\ UNCHANGED <<next_id, disappeared, trackerObs, zones, edVars, now, hist,
                   analyticsVars, pipelineVars, pipelineObs>>

RaceCheckRaises ==
    /\ sessions # <<>>
    /\ Job.thread = "iterating"
    /\ Cardinality(DOMAIN zones) # Cardinality(DOMAIN Job.seen[1])
    /\ ran' = Ran("process_frame", call.dets, "RuntimeError", TRUE,
                  <<"detect", "update", "check_zones">>, <<>>)
    /\ sessions' = [sessions EXCEPT ![1].thread = "raised"]
    /\ UNCHANGED <<trackerVars, trackerObs, zoneVars, edVars, edObs,
                   analyticsVars, pipelineVars>>

\* steps 4 to 6: detect_proximity, detect_events with
\* zones=self.zone_engine.zones, ingest_frame
RaceDescribe ==
    /\ sessions # <<>>
    /\ Job.thread = "checked"
    /\ DetectEventsCall(objects, out.entries, out.exits, DetectProximity(objects),
                        frame_count, now)
    /\ LET r == IngestFrame(AnalyticsNow, objects, out'.events, frame_count, now)
       IN  /\ analytics_events' = r.engine.events
           /\ risk_history' = r.engine.risk_history
           /\ compliance_history' = r.engine.compliance_history
           /\ alert_buckets' = r.engine.alert_buckets
           /\ start_time' = r.engine.start_time
    /\ sessions' = [sessions EXCEPT ![1].thread = "described",
                                    ![1].seen = Append(@, zones)]
    /\ UNCHANGED <<trackerVars, trackerObs, zoneVars, pipelineVars, pipelineObs>>

\* steps 7 and 8 and the result: _annotate_frame draws
\* self.zone_engine.zones
RaceAnnotate ==
    /\ sessions # <<>>
    /\ Job.thread = "described"
    /\ LET result == FrameResult(frame_count, call.dets, objects, out.events,
                                 risk_history[Len(risk_history)].value,
                                 compliance_history[Len(compliance_history)].value)
       IN  /\ last_result' = <<result>>
           /\ ran' = Ran("process_frame", call.dets, "", TRUE, Stages, <<result>>)
    /\ sessions' = [sessions EXCEPT ![1].thread = "returned",
                                    ![1].seen = Append(@, zones)]
    /\ UNCHANGED <<trackerVars, trackerObs, zoneVars, edVars, edObs,
                   analyticsVars, frame_count, SKIP_FRAMES>>

\* the generator is resumed with the result and goes on to the next frame
RaceResume ==
    /\ sessions # <<>>
    /\ Job.thread = "returned"
    /\ sessions' = [sessions EXCEPT ![1].pc = "reading", ![1].thread = "none",
                                    ![1].frames = @ + 1]
    /\ UNCHANGED <<trackerVars, trackerObs, zoneVars, edVars, edObs,
                   analyticsVars, pipelineVars, pipelineObs>>

\* the generator is resumed with the exception: finally cap.release()
RaceFails ==
    /\ sessions # <<>>
    /\ Job.thread = "raised"
    /\ sessions' = [sessions EXCEPT ![1].pc = "done", ![1].thread = "none",
                                    ![1].cap = "released",
                                    ![1].failure = ran.raised]
    /\ UNCHANGED <<trackerVars, trackerObs, zoneVars, edVars, edObs,
                   analyticsVars, pipelineVars, pipelineObs>>

\* a zone request served by the event loop while the generator is waiting
\* for its thread or for its consumer
RaceCreateZone ==
    /\ sessions # <<>>
    /\ CreateZone

RaceDeleteZone ==
    /\ sessions # <<>>
    /\ DeleteZone

NextRace ==
    \/ RaceOpen \/ RaceRead \/ RaceSkip \/ RaceTrack \/ RaceCheckBegin
    \/ RaceCheckEnd \/ RaceCheckRaises \/ RaceDescribe \/ RaceAnnotate
    \/ RaceResume \/ RaceFails \/ RaceCreateZone \/ RaceDeleteZone
SpecRace == InitSite /\ [][NextRace]_vars

C38_EntryIntoDeletedZone ==
    /\ sessions # <<>>
    /\ Job.thread = "returned"
    /\ Len(Job.seen) = 3
    /\ "Z1" \in DOMAIN Job.seen[1]
    /\ "Z1" \notin DOMAIN Job.seen[2]
    /\ "Z1" \notin DOMAIN Job.seen[3]
    /\ \E n \in 1..Len(out.events) :
          /\ out.events[n].event_type = "zone_entry"
          /\ out.events[n].zone_id = "Z1"
          /\ out.events[n].severity = WARNING

\* a frame lost to RuntimeError: the dict changed size during the pass
C38_PassInterrupted ==
    /\ sessions # <<>>
    /\ Job.pc = "done"
    /\ Job.failure = "RuntimeError"

---------------------------------------------------------------------------
(* pipeline.py, process_frame lines 41-54: the operations it asks of the   *)
(* zone engine                                                             *)

\* C39: every operation process_frame invokes on the zone engine is one
\* class ZoneEngine defines, so no process_frame call of a session fails
\* with AttributeError: it reaches the skip check, and a frame the skip
\* policy admits reaches the tracker and the stages after it.
C39_ProcessFrameFindsItsOperations ==
    ran.op = "process_frame" =>
        /\ ran.raised # "AttributeError"
        /\ Due(frame_count, SKIP_FRAMES) =>
              (ran.admitted /\ ran.calls = Stages /\ call.op = "update")

\* what the code does: the first frame of a session is counted and lost to
\* AttributeError before the skip check
C39_FirstFrameRaises ==
    /\ ran.op = "process_frame"
    /\ ran.raised = "AttributeError"
    /\ frame_count = 1
    /\ ~ran.admitted
    /\ ran.calls = <<>>
    /\ objects = <<>>
    /\ \E k \in DOMAIN sessions : sessions[k].failure = "AttributeError"


---------------------------------------------------------------------------
(* The risk scores as the doubles they are.  A whole number of any length *)
(* is the sequence of its digits to the base 2^15, the lowest first and   *)
(* no zero on top; a double that is not negative is m * 2^e with          *)
(* 2^52 <= m < 2^53, or zero.  What is computed is rounded to the nearest *)
(* double, a tie to the even one, as IEEE 754 has it.                     *)

Limb == 2^15

RECURSIVE BFromInt(_)
BFromInt(n) == IF n = 0 THEN <<>> ELSE <<n % Limb>> \o BFromInt(n \div Limb)

RECURSIVE BNorm(_)
BNorm(a) ==
    IF a = <<>> THEN a
    ELSE IF a[Len(a)] = 0 THEN BNorm(SubSeq(a, 1, Len(a) - 1)) ELSE a

DigitAt(a, i) == IF i <= Len(a) THEN a[i] ELSE 0

RECURSIVE BAddFrom(_, _, _, _)
BAddFrom(a, b, i, carry) ==
    IF i > Len(a) /\ i > Len(b) THEN IF carry = 0 THEN <<>> ELSE <<carry>>
    ELSE LET s == DigitAt(a, i) + DigitAt(b, i) + carry
         IN  <<s % Limb>> \o BAddFrom(a, b, i + 1, s \div Limb)

BAdd(a, b) == BAddFrom(a, b, 1, 0)

\* a - b where a >= b
RECURSIVE BSubFrom(_, _, _, _)
BSubFrom(a, b, i, borrow) ==
    IF i > Len(a) THEN <<>>
    ELSE LET d == DigitAt(a, i) - DigitAt(b, i) - borrow
         IN  IF d < 0 THEN <<d + Limb>> \o BSubFrom(a, b, i + 1, 1)
             ELSE <<d>> \o BSubFrom(a, b, i + 1, 0)

BSub(a, b) == BNorm(BSubFrom(a, b, 1, 0))

RECURSIVE BCmpFrom(_, _, _)
BCmpFrom(a, b, i) ==
    IF i = 0 THEN 0
    ELSE IF a[i] < b[i] THEN -1
    ELSE IF a[i] > b[i] THEN 1
    ELSE BCmpFrom(a, b, i - 1)

\* -1, 0 or 1 as a is below, at or above b
BCmp(a, b) ==
    IF Len(a) < Len(b) THEN -1
    ELSE IF Len(a) > Len(b) THEN 1
    ELSE BCmpFrom(a, b, Len(a))

\* a * k for k below the base
RECURSIVE BMulFrom(_, _, _, _)
BMulFrom(a, k, i, carry) ==
    IF i > Len(a) THEN BFromInt(carry)
    ELSE LET p == a[i] * k + carry
         IN  <<p % Limb>> \o BMulFrom(a, k, i + 1, p \div Limb)

BMulSmall(a, k) == BNorm(BMulFrom(a, k, 1, 0))

\* a divided by k below the base: quotient and remainder
RECURSIVE BDivFrom(_, _, _, _)
BDivFrom(a, k, i, rem) ==
    IF i = 0 THEN [q |-> <<>>, r |-> rem]
    ELSE LET cur == rem * Limb + a[i]
             rest == BDivFrom(a, k, i - 1, cur % k)
         IN  [q |-> Append(rest.q, cur \div k), r |-> rest.r]

BDivSmall(a, k) ==
    LET d == BDivFrom(a, k, Len(a), 0)
    IN  [q |-> BNorm(d.q), r |-> d.r]

\* a * 2^k and a \div 2^k
BShl(a, k) ==
    IF a = <<>> THEN a
    ELSE [i \in 1..(k \div 15) |-> 0] \o BMulSmall(a, 2^(k % 15))

BShr(a, k) ==
    IF k \div 15 >= Len(a) THEN <<>>
    ELSE BDivSmall(SubSeq(a, k \div 15 + 1, Len(a)), 2^(k % 15)).q

RECURSIVE Width(_)
Width(n) == IF n = 0 THEN 0 ELSE 1 + Width(n \div 2)

\* the number of binary digits of a
BBits(a) == IF a = <<>> THEN 0 ELSE 15 * (Len(a) - 1) + Width(a[Len(a)])

BOdd(a) == a # <<>> /\ a[1] % 2 = 1

Zero == [m |-> <<>>, e |-> 0]

\* the double nearest to n * 2^e, a tie to the even one; lost says that n
\* stands for a number a little above it
Round(n, e, lost) ==
    LET bits == BBits(n)
    IN  IF n = <<>> THEN Zero
        ELSE IF bits <= 53 THEN [m |-> BShl(n, 53 - bits), e |-> e - (53 - bits)]
        ELSE LET s == bits - 53
                 q == BShr(n, s)
                 c == BCmp(BSub(n, BShl(q, s)), BShl(<<1>>, s - 1))
                 up == c > 0 \/ (c = 0 /\ (lost \/ BOdd(q)))
                 m == IF up THEN BAdd(q, <<1>>) ELSE q
             IN  IF BBits(m) > 53 THEN [m |-> BShr(m, 1), e |-> e + s + 1]
                 ELSE [m |-> m, e |-> e + s]

\* the digits of a at the exponent e <= a.e
Aligned(a, e) == BShl(a.m, a.e - e)

\* a < b, a == b, a > b on doubles as -1, 0, 1
FCmp(a, b) ==
    IF a.m = <<>> \/ b.m = <<>>
    THEN IF a.m = b.m THEN 0 ELSE IF a.m = <<>> THEN -1 ELSE 1
    ELSE LET e == Least(a.e, b.e)
         IN  BCmp(Aligned(a, e), Aligned(b, e))

\* a + b
FAdd(a, b) ==
    IF a.m = <<>> THEN b
    ELSE IF b.m = <<>> THEN a
    ELSE LET e == Least(a.e, b.e)
         IN  Round(BAdd(Aligned(a, e), Aligned(b, e)), e, FALSE)

\* a - b where a >= b
FSub(a, b) ==
    IF b.m = <<>> THEN a
    ELSE LET e == Least(a.e, b.e)
         IN  Round(BSub(Aligned(a, e), Aligned(b, e)), e, FALSE)

\* a * k for a whole k
FTimes(a, k) == Round(BMulSmall(a.m, k), a.e, FALSE)

\* p / q of two whole numbers
FQuot(p, q) ==
    LET d == BDivSmall(BShl(BFromInt(p), 70), q)
    IN  Round(d.q, -70, d.r # 0)

\* a / n for a whole n
FDivInt(a, n) ==
    LET d == BDivSmall(BShl(a.m, 20), n)
    IN  Round(d.q, a.e - 20, d.r # 0)

\* h / 2 for a whole h
FHalves(h) == Round(BFromInt(h), -1, FALSE)

\* min(a, b) and max(a, b)
FMin(a, b) == IF FCmp(b, a) < 0 THEN b ELSE a
FMax(a, b) == IF FCmp(b, a) > 0 THEN b ELSE a

\* compliant / len(persons), or 1.0 where nobody is there
ComplianceDouble(tracked_objects) ==
    LET persons == Persons(tracked_objects)
    IN  IF Len(persons) > 0 THEN FQuot(Compliant(persons), Len(persons))
        ELSE FHalves(2)

\* _compute_risk on doubles: the sum is taken from the left
ComputeRiskDouble(tracked_objects, recent_events, compliance_rate) ==
    LET ppe_component == FTimes(FSub(FHalves(2), compliance_rate), 40)
        zone_component ==
            FMin(FHalves(CountType(recent_events, "zone_entry") * 16), FHalves(50))
        near_miss_component ==
            FMin(FHalves(CountType(recent_events, "near_miss") * 25), FHalves(50))
        density_component ==
            FMin(FHalves(Len(Persons(tracked_objects)) * 3), FHalves(20))
    IN  FMin(FAdd(FAdd(FAdd(ppe_component, zone_component), near_miss_component),
                  density_component),
             FHalves(200))

\* sum(vals): the additions one after the other, each of them rounded
RECURSIVE SumDoubles(_, _)
SumDoubles(vals, n) ==
    IF n = 0 THEN Zero ELSE FAdd(SumDoubles(vals, n - 1), vals[n])

\* max(vals) of a list that is not empty
RECURSIVE MaxDoubles(_, _)
MaxDoubles(vals, n) ==
    IF n = 1 THEN vals[1] ELSE FMax(MaxDoubles(vals, n - 1), vals[n])

\* avg_risk and peak_risk of get_analytics
AvgRisk(risk_vals) ==
    IF risk_vals = <<>> THEN Zero
    ELSE FDivInt(SumDoubles(risk_vals, Len(risk_vals)), Len(risk_vals))

PeakRisk(risk_vals) ==
    IF risk_vals = <<>> THEN Zero ELSE MaxDoubles(risk_vals, Len(risk_vals))


---------------------------------------------------------------------------
(* C40.  The analytics engine alone, fed by sessions: reset starts a       *)
(* session, ingest_frame is called with the tracked objects and events of  *)
(* a frame, and every state is looked at as get_analytics would show it.   *)
(* The frames: three persons of whom one wears a hardhat and nothing going *)
(* on; a minute later one bare head, a car and an event of each kind;      *)
(* nobody and a zone entry.                                                *)

MaxTotals == 5          \* frames ingested in one session
MaxTotalsSessions == 2  \* sessions, each started by a reset

\* one event of every kind the detector emits
OfEveryKind ==
    Alerts(1, 1, 1)
    \o <<Event(1, "ppe_violation", WARNING, <<0>>, 0, NONE),
         Event(1, "fallen_worker", CRITICAL, <<0>>, 0, NONE),
         Event(1, "ppe_restored", INFO, <<0>>, 0, NONE),
         Event(1, "loitering", WARNING, <<0, 30>>, 0, NONE)>>

\* tracked objects, events, and the seconds gone by since the call before
TotalsFrames ==
    {<<Crowd(1, 2, 0, 0), Alerts(0, 0, 0), 1>>,
     <<Crowd(0, 1, 0, 1), OfEveryKind, 60>>,
     <<Crowd(0, 0, 0, 0), Alerts(1, 0, 0), 1>>}

\* AnalyticsEngine.reset at the start of a session
TotalsReset ==
    /\ Len(sessions) < MaxTotalsSessions
    /\ now <= Epoch + ResetWithin
    /\ analytics_events' = ResetAnalytics(now).events
    /\ risk_history' = ResetAnalytics(now).risk_history
    /\ compliance_history' = ResetAnalytics(now).compliance_history
    /\ alert_buckets' = ResetAnalytics(now).alert_buckets
    /\ start_time' = ResetAnalytics(now).start_time
    /\ ran' = Ran("reset", <<>>, "", FALSE, <<>>, <<>>)
    /\ sessions' = Append(sessions, Session("analytics"))
    /\ UNCHANGED <<trackerVars, trackerObs, zoneVars, edVars, edObs, pipelineVars>>

\* ingest_frame, and the session noting what it passed in and got back
TotalsIngest ==
    /\ sessions # <<>>
    /\ Len(risk_history) < MaxTotals
    /\ \E f \in TotalsFrames :
          LET t == now + f[3]
              n == Len(risk_history) + 1
              r == IngestFrame(AnalyticsNow, f[1], f[2], n, t)
              done == Ran("ingest_frame", <<>>, "", TRUE, <<"ingest_frame">>,
                          <<FrameResult(n, <<>>, f[1], f[2],
                                        r.risk_score, r.compliance_rate)>>)
          IN  /\ analytics_events' = r.engine.events
              /\ risk_history' = r.engine.risk_history
              /\ compliance_history' = r.engine.compliance_history
              /\ alert_buckets' = r.engine.alert_buckets
              /\ start_time' = r.engine.start_time
              /\ now' = t
              /\ ran' = done
              /\ sessions' = [sessions EXCEPT ![Len(sessions)] = Turn(@, done)]
    /\ UNCHANGED <<trackerVars, trackerObs, zoneVars, edVars, out, hist, pipelineVars>>

NextTotals == TotalsReset \/ TotalsIngest
SpecTotals == Init /\ [][NextTotals]_vars

\* what the calls of ingest_frame since the last reset were given and
\* returned, oldest first
Ingested ==
    IF sessions = <<>> THEN <<>>
    ELSE [k \in 1..Len(Last.log) |-> Last.log[k].result]

\* the events of the first n of these calls
RECURSIVE IngestedEvents(_)
IngestedEvents(n) ==
    IF n = 0 THEN <<>> ELSE IngestedEvents(n - 1) \o Ingested[n].events

\* the risk scores of these calls as the doubles _compute_risk returned
RiskDoubles ==
    [k \in 1..Len(Ingested) |->
        ComputeRiskDouble(Ingested[k].tracked_objects, Ingested[k].events,
                          ComplianceDouble(Ingested[k].tracked_objects))]

\* get_analytics now, its two risk figures as doubles
TotalsSnapshot ==
    [GetAnalytics(AnalyticsNow) EXCEPT !.avg_risk_score = AvgRisk(RiskDoubles),
                                       !.peak_risk_score = PeakRisk(RiskDoubles)]

\* the sum of the values of a dict
RECURSIVE SumCounts(_)
SumCounts(counts) ==
    IF DOMAIN counts = {} THEN 0
    ELSE LET key == CHOOSE x \in DOMAIN counts : TRUE
         IN  counts[key] + SumCounts([x \in DOMAIN counts \ {key} |-> counts[x]])

\* the sum of the values of the first n points of a series
RECURSIVE SumPoints(_, _)
SumPoints(series, n) ==
    IF n = 0 THEN 0 ELSE SumPoints(series, n - 1) + series[n].value

\* the counts of a snapshot agree with each other and with the events
\* ingested since the last reset
CountsAgree(a, events_in) ==
    /\ a.critical_events + a.warning_events + a.info_events = a.total_events
    /\ a.total_events = SumCounts(a.event_type_counts)
    /\ a.total_events = SumPoints(a.alerts_per_minute, Len(a.alerts_per_minute))
    /\ a.total_events = Len(events_in)
    /\ a.ppe_violations = CountType(events_in, "ppe_violation")
    /\ a.zone_violations = CountType(events_in, "zone_entry")
    /\ a.near_misses = CountType(events_in, "near_miss")
    /\ a.fallen_workers = CountType(events_in, "fallen_worker")

\* C40: in every analytics snapshot of a session the severity counts add up
\* to total_events, which is also the sum of event_type_counts, the sum of the
\* alerts-per-minute series and the number of events ingested since the last
\* reset; ppe_violations, zone_violations, near_misses and fallen_workers are
\* the numbers of logged ppe_violation, zone_entry, near_miss and
\* fallen_worker events; and the peak risk is at least the average risk.
C40_CountsAgreeAndPeakAtLeastAverage ==
    /\ CountsAgree(TotalsSnapshot, IngestedEvents(Len(Ingested)))
    /\ FCmp(TotalsSnapshot.peak_risk_score, TotalsSnapshot.avg_risk_score) >= 0

\* the counts of every snapshot do agree
C40_CountsAlwaysAgree ==
    CountsAgree(TotalsSnapshot, IngestedEvents(Len(Ingested)))

\* on the exact values of the series the mean is never above the maximum
C40_ExactMeanBelowPeak ==
    AtMost(GetAnalytics(AnalyticsNow).avg_risk_score,
           GetAnalytics(AnalyticsNow).peak_risk_score)

\* five frames showing the same three persons, one of them with a hardhat:
\* every risk score is the same double, and their average is the next
\* double above it
C40_AverageAbovePeak ==
    /\ Len(RiskDoubles) = 5
    /\ \A k \in 1..5 : RiskDoubles[k] = RiskDoubles[1]
    /\ TotalsSnapshot.peak_risk_score = RiskDoubles[1]
    /\ FCmp(TotalsSnapshot.avg_risk_score, TotalsSnapshot.peak_risk_score) > 0
    /\ TotalsSnapshot.avg_risk_score.e = TotalsSnapshot.peak_risk_score.e
    /\ TotalsSnapshot.avg_risk_score.m = BAdd(TotalsSnapshot.peak_risk_score.m, <<1>>)

\* a snapshot with events of every kind in two minute buckets, after a
\* reset that followed ingested events
C40_CountsWitness ==
    /\ Len(sessions) = 2
    /\ sessions[1].log # <<>>
    /\ Len(TotalsSnapshot.alerts_per_minute) = 2
    /\ TotalsSnapshot.fallen_workers > 0
    /\ TotalsSnapshot.ppe_violations > 0
    /\ TotalsSnapshot.zone_violations > 1

=========================================================================
